---- MODULE Spec2Model ----
(***************************************************************************)
(* Model of src/src/scripting.cpp (namespace Scripting): script path       *)
(* resolution, version specific parts, the script cache, macro expansion,  *)
(* execution of SQL and QS scripts and the CppConductor.                   *)
(*                                                                         *)
(* Texts (QString) are sequences of one-character strings, so that the     *)
(* regular expressions and QString::mid/replace/contains work on           *)
(* characters as the code does.                                            *)
(***************************************************************************)
EXTENDS Integers, Sequences, FiniteSets, TLC

VARIABLES
    vPre,       \* versionSpecificPart: the script's text before its first marker
    vChunks,    \* versionSpecificPart: the script's markers, each with the text after it
    vVersion,   \* versionSpecificPart: argument version
    vResult,    \* versionSpecificPart: returned text
    vPc,        \* "idle" (arguments chosen), "done" (returned), "off" (not in use)
    mPieces,    \* macro expansion: the pieces the script body is put together from
    mCb,        \* macro expansion: envCallback, the value it returns for each name
    mQuery,     \* macro expansion: query after the replacements
    mCalls,     \* macro expansion: the names envCallback was called with, in order
    mPc,        \* "idle", "done", "off"
    dirs,       \* the file system: the directories that exist, as paths from
                \* QApplication::applicationDirPath()
    _dbms_paths, \* key = dbms info, value = root scripts path
    pLast,      \* the latest call of dbmsScriptPath and what it did
    pPrev,      \* the call of dbmsScriptPath before the latest
    diskFiles,  \* the file system: the files of each directory, as listed
    _scripts,   \* key = path/context/, value = { type, script }
    tables,     \* the DataTables created during the latest call of execute
    held,       \* the conductor execute returned, while the caller holds it
    lastExec,   \* the latest call of execute and what it did
    cEnv,       \* CppConductor: the conductor, Null when it is destroyed
    cHeap,      \* CppConductor: the tables created by the user of the conductor
    cHanded,    \* CppConductor: the tables handed to appendTable, in call order
    cLast,      \* CppConductor: the latest call and the state before it
    threads,    \* concurrent callers: where each is in getScript or refresh
    stack,       \* re-entrant connection: the calls in progress, the innermost last
    rLast  \* changing directory: the latest call of refresh or getScript

versionVars == <<vPre, vChunks, vVersion, vResult, vPc>>
macroVars == <<mPieces, mCb, mQuery, mCalls, mPc>>
pathVars == <<dirs, _dbms_paths, pLast, pPrev>>
execVars == <<diskFiles, _scripts, tables, held, lastExec>>
conductorVars == <<cEnv, cHeap, cHanded, cLast>>
threadVars == <<threads>>
reentryVars == <<stack>>
refreshVars == <<rLast>>

vars == <<versionVars, macroVars, pathVars, execVars, conductorVars, threadVars, reentryVars, refreshVars>>

(***************************************************************************)
(* Characters and small text helpers                                       *)
(***************************************************************************)
Digits == <<"0", "1", "2", "3", "4", "5", "6", "7", "8", "9">>

\* \d of QRegularExpression (no UseUnicodePropertiesOption): ASCII digits
IsDigit(c) == \E k \in 1..10 : Digits[k] = c

DigitVal(c) == (CHOOSE k \in 1..10 : Digits[k] = c) - 1

\* \s of QRegularExpression
IsSpace(c) == c \in {" ", "\t", "\n", "\r"}

\* the character at 1-based index i, "" past the end of the text
At(s, i) == IF i \in 1..Len(s) THEN s[i] ELSE ""

RECURSIVE SkipSpaces(_, _)
\* \s* (greedy): the first index >= i that holds no white space
SkipSpaces(s, i) == IF IsSpace(At(s, i)) THEN SkipSpaces(s, i + 1) ELSE i

RECURSIVE SkipDigits(_, _)
\* \d* (greedy): the first index >= i that holds no digit
SkipDigits(s, i) == IF IsDigit(At(s, i)) THEN SkipDigits(s, i + 1) ELSE i

RECURSIVE Flatten(_)
Flatten(ss) == IF ss = <<>> THEN <<>> ELSE Head(ss) \o Flatten(Tail(ss))

Max(S) == CHOOSE x \in S : \A y \in S : y <= x

\* QString::mid(position, n), position counted from 0
mid(s, position, n) == SubSeq(s, position + 1, position + n)

\* QString::mid(position): to the end of the text
midToEnd(s, position) == SubSeq(s, position + 1, Len(s))

\* QMap and QHash: map[key] = value, map.insert(key, value)
insert(map, key, value) ==
    [k \in DOMAIN map \cup {key} |-> IF k = key THEN value ELSE map[k]]

(***************************************************************************)
(* QString::toInt of a run of digits                                       *)
(***************************************************************************)
INT_MAX == 2147483647

RECURSIVE toIntFrom(_, _)
\* the value of the digits ds after the value acc read so far; -1 when it
\* does not fit in an int
toIntFrom(ds, acc) ==
    IF ds = <<>> THEN acc
    ELSE LET d == DigitVal(Head(ds))
         IN  IF acc > (INT_MAX - d) \div 10 THEN -1
             ELSE toIntFrom(Tail(ds), acc * 10 + d)

\* the conversion fails when the value is out of the range of int
toIntFails(ds) == toIntFrom(ds, 0) = -1

\* QString::toInt(): returns 0 if the conversion fails
toInt(ds) == IF toIntFails(ds) THEN 0 ELSE toIntFrom(ds, 0)

(***************************************************************************)
(* dbmsScriptPath                                                          *)
(***************************************************************************)
UpperCase == <<"A", "B", "C", "D", "E", "F", "G", "H", "I", "J", "K", "L", "M",
               "N", "O", "P", "Q", "R", "S", "T", "U", "V", "W", "X", "Y", "Z">>
LowerCase == <<"a", "b", "c", "d", "e", "f", "g", "h", "i", "j", "k", "l", "m",
               "n", "o", "p", "q", "r", "s", "t", "u", "v", "w", "x", "y", "z">>

\* case folding of one character
ToLower(c) ==
    IF \E k \in 1..26 : UpperCase[k] = c
    THEN LowerCase[CHOOSE k \in 1..26 : UpperCase[k] = c]
    ELSE c

FoldCase(s) == [k \in 1..Len(s) |-> ToLower(s[k])]

\* QString::contains(d, Qt::CaseInsensitive)
containsCaseInsensitive(s, d) ==
    \E i \in 1..(Len(s) - Len(d) + 1) :
        SubSeq(FoldCase(s), i, i + Len(d) - 1) = FoldCase(d)

\* the characters of the name of a directory
DirChars(d) ==
    CASE d = "pg" -> <<"p", "g">>
      [] d = "ms" -> <<"m", "s">>
      [] d = "odbc" -> <<"o", "d", "b", "c">>
      [] d = "default" -> <<"d", "e", "f", "a", "u", "l", "t">>
      [] d = "tree" -> <<"t", "r", "e", "e">>
      [] d = "content" -> <<"c", "o", "n", "t", "e", "n", "t">>
      [] d = "preview" -> <<"p", "r", "e", "v", "i", "e", "w">>
      [] d = "scripts" -> <<"s", "c", "r", "i", "p", "t", "s">>

\* the names of directories in the order a listing gives them (by name)
ListingOrder == <<"content", "default", "ms", "odbc", "pg", "preview", "tree">>

\* QDir(path).exists(), QFile::exists(path) of a directory
exists(fs, path) == path \in fs

\* dir.entryList(QStringList(), QDir::AllDirs | QDir::NoDotAndDotDot)
entryList(fs, path) ==
    LET IsSubdir(d) == (path \o <<d>>) \in fs
    IN  SelectSeq(ListingOrder, IsSubdir)

\* the switch over context
contextFolder(context) ==
    CASE context = "Tree" -> <<"tree">>
      [] context = "Content" -> <<"content">>
      [] context = "Preview" -> <<"preview">>
      [] OTHER -> <<>>

Null == [null |-> TRUE]

RECURSIVE searchFolder(_, _)
\* the for loop over subdirs: the first folder whose name dbmsName contains
searchFolder(subdirs, dbmsName) ==
    IF subdirs = <<>> THEN <<>>
    ELSE IF containsCaseInsensitive(dbmsName, DirChars(Head(subdirs)))
         THEN <<Head(subdirs)>>
         ELSE searchFolder(Tail(subdirs), dbmsName)

\* Mutant of contextAvailable: the test of line 81 left out
contextAvailable_unchecked(fs, path) == TRUE

\* QFile::exists(startPath + contextFolder), line 81
contextAvailable(fs, path) == exists(fs, path)

\* Mutant of cachePath: the path is not kept
cachePath_forgotten(paths, dbmsID, startPath) == paths

\* _dbms_paths.insert(dbmsID, startPath), line 83
cachePath(paths, dbmsID, startPath) == insert(paths, dbmsID, startPath)

\* what a call of dbmsScriptPath does: ok and path (the value returned) or
\* err (the text thrown); paths, the cache after the call; cached, whether
\* the cache answered; reads, the accesses to the file system made (exists,
\* entryList); opened, whether con->open() was called
PathResult(ok, err, path, paths, cached, reads, opened) ==
    [ok |-> ok, err |-> err, path |-> path, paths |-> paths,
     cached |-> cached, reads |-> reads, opened |-> opened]

dbmsScriptPath(paths, fs, con, context) ==
    IF con = Null
    THEN PathResult(FALSE, "db connection unavailable", <<>>, paths, FALSE, 0, FALSE)
    ELSE
    LET dbmsID == con.name \o con.version
        root == IF con.odbc THEN <<"scripts", "odbc">> ELSE <<"scripts">>
        subdirs == entryList(fs, root)
        endPath == searchFolder(subdirs, con.name)
        startPath == IF endPath = <<>> /\ con.odbc
                     THEN root \o <<"default">>
                     ELSE root \o endPath
    IN  IF dbmsID \in DOMAIN paths
        THEN PathResult(TRUE, "", paths[dbmsID] \o contextFolder(context), paths,
                        TRUE, 0, TRUE)
        ELSE IF ~exists(fs, root)
        THEN PathResult(FALSE, "directory does not exist", <<>>, paths, FALSE, 1, TRUE)
        ELSE IF con.name = <<>>
        THEN PathResult(FALSE, "unable to get dbms name", <<>>, paths, FALSE, 2, TRUE)
        ELSE IF ~contextAvailable(fs, startPath \o contextFolder(context))
        THEN PathResult(FALSE, "directory is not available", <<>>, paths, FALSE, 3, TRUE)
        ELSE PathResult(TRUE, "", startPath \o contextFolder(context),
                        cachePath(paths, dbmsID, startPath), FALSE, 3, TRUE)

(***************************************************************************)
(* versionSpecificPart                                                     *)
(***************************************************************************)
\* Mutant of MarkerAt: the pattern without \+ after the digits
MarkerAt_noPlus(s, i) ==
    LET v == SkipSpaces(s, i + 2)
        p == SkipDigits(s, v + 1)
        a == SkipSpaces(s, p)
        ok == /\ At(s, i) = "/" /\ At(s, i + 1) = "*"
              /\ At(s, v) = "V"
              /\ p > v + 1
              /\ At(s, a) = "*" /\ At(s, a + 1) = "/"
    IN  [ok |-> ok,
         digits |-> IF ok THEN SubSeq(s, v + 1, p - 1) ELSE <<>>,
         len |-> IF ok THEN a + 2 - i ELSE 0]

\* The comment \/\*\s*V(\d+)\+\s*\*\/ read at 1-based index i of s.
\* Every quantified item is followed by a character outside its class, so
\* the greedy match is the only one.
MarkerAt(s, i) ==
    LET v == SkipSpaces(s, i + 2)
        p == SkipDigits(s, v + 1)
        a == SkipSpaces(s, p + 1)
        ok == /\ At(s, i) = "/" /\ At(s, i + 1) = "*"
              /\ At(s, v) = "V"
              /\ p > v + 1
              /\ At(s, p) = "+"
              /\ At(s, a) = "*" /\ At(s, a + 1) = "/"
    IN  [ok |-> ok,
         digits |-> IF ok THEN SubSeq(s, v + 1, p - 1) ELSE <<>>,
         len |-> IF ok THEN a + 2 - i ELSE 0]

\* A match of re, (?=...): the pattern is a lookahead, the match itself is
\* empty. start counts from 0; len is the length of the comment looked at.
Match(i, marker) ==
    [start |-> i - 1, captured1 |-> marker.digits, len |-> marker.len]

RECURSIVE globalMatchFrom(_, _)
globalMatchFrom(s, i) ==
    IF i > Len(s) THEN <<>>
    ELSE IF At(s, i) # "/" THEN globalMatchFrom(s, i + 1)
    ELSE LET marker == MarkerAt(s, i)
         IN  (IF marker.ok THEN <<Match(i, marker)>> ELSE <<>>)
             \o globalMatchFrom(s, i + 1)

\* re.globalMatch(script): the matches from left to right
globalMatch(s) == globalMatchFrom(s, 1)

capturedStart(m) == m.start

\* Mutant of capturedEnd: a pattern that consumes the comment
capturedEnd_consuming(m) == m.start + m.len

\* the end of group 0, which is empty: the pattern is only a lookahead
capturedEnd(m) == m.start

\* the value cut for the k-th match of ms
partValue(script, ms, k) ==
    IF k < Len(ms)
    THEN mid(script, capturedEnd(ms[k]),
             capturedStart(ms[k + 1]) - capturedEnd(ms[k]))
    ELSE midToEnd(script, capturedEnd(ms[k]))

RECURSIVE buildParts(_, _, _, _)
\* the while loop over the matches, from the k-th on
buildParts(script, ms, k, parts) ==
    IF k > Len(ms) THEN parts
    ELSE buildParts(script, ms, k + 1,
                    insert(parts, toInt(ms[k].captured1), partValue(script, ms, k)))

RECURSIVE searchHighest(_, _, _)
\* the do-while loop from the highest key down: keys are those not yet seen
searchHighest(parts, keys, version) ==
    IF keys = {} THEN <<>>
    ELSE IF Max(keys) <= version THEN parts[Max(keys)]
    ELSE searchHighest(parts, keys \ {Max(keys)}, version)

versionSpecificPart(script, version) ==
    LET ms == globalMatch(script)
    IN  IF ms = <<>> THEN script
        ELSE LET parts == buildParts(script, ms, 1, <<>>)
             IN  searchHighest(parts, DOMAIN parts, version)

(***************************************************************************)
(* refresh and getScript                                                   *)
(***************************************************************************)
\* the calls a call of dbmsScriptPath makes on the connection: lines 29-30,
\* and line 60 when the cache does not answer and the directory exists
pathConCalls(r) ==
    (IF r.opened THEN <<"open", "dbmsName", "dbmsVersion">> ELSE <<>>)
        \o (IF r.reads >= 2 THEN <<"dbmsName">> ELSE <<>>)

\* QHash<QString, Script>(): an empty bunch
EmptyBunch == <<>>

\* bunch.isEmpty()
isEmpty(bunch) == DOMAIN bunch = {}

\* Mutant of find: an object type that is not there gives the first script
find_anyScript(bunch, objectType) ==
    IF objectType \in DOMAIN bunch THEN bunch[objectType]
    ELSE IF isEmpty(bunch) THEN Null
    ELSE bunch[CHOOSE t \in DOMAIN bunch : TRUE]

\* bunch.find(objectType), nullptr when it == bunch.end()
find(bunch, objectType) ==
    IF objectType \in DOMAIN bunch THEN bunch[objectType] ELSE Null

\* _scripts[path]: the bunch of path, an empty one when there is none yet
bunchOf(scripts, path) == IF path \in DOMAIN scripts THEN scripts[path] ELSE EmptyBunch

\* the bunch of path set to bunch. An empty bunch is not kept: _scripts[path]
\* gives an empty bunch for a path it does not hold, so the two are the same
\* to every reader
setBunch(scripts, path, bunch) ==
    IF isEmpty(bunch)
    THEN [q \in DOMAIN scripts \ {path} |-> scripts[q]]
    ELSE insert(scripts, path, bunch)

\* Mutant of entryInfoList: hidden files are listed too
entryInfoList_hidden(fl, path) == IF path \in DOMAIN fl THEN fl[path] ELSE <<>>

\* f is listed under the filter QDir::Files: QDir::Hidden is not given
Listed(f) == ~f.hidden

\* QDir(path).entryInfoList({"*.*"}, QDir::Files): the files of path that
\* are not hidden, none when there is no such directory
entryInfoList(fl, path) ==
    IF path \in DOMAIN fl THEN SelectSeq(fl[path], Listed) ELSE <<>>

\* f.suffix().toLower()
suffixLower(f) == FoldCase(f.suffix)

IsScriptSuffix(suffix) == suffix = <<"s", "q", "l">> \/ suffix = <<"q", "s">>

\* Scripting::Script { versionSpecificPart(...), suffix == "sql" ? SQL : QS }
Script(f, version) ==
    [body |-> versionSpecificPart(f.content, version),
     type |-> IF suffixLower(f) = <<"s", "q", "l">> THEN "SQL" ELSE "QS"]

\* Mutant of scriptVersion: the connection is asked at root level too
scriptVersion_asking(connection, context) ==
    [asks |-> TRUE, version |-> connection.cmp]

\* line 176: context == Context::Root ? -1 : connection->dbmsComparableVersion();
\* asks: whether dbmsComparableVersion() is called
scriptVersion(connection, context) ==
    [asks |-> context # "Root",
     version |-> IF context = "Root" THEN -1 ELSE connection.cmp]

RECURSIVE loadFiles(_, _, _, _, _)
\* the for loop of refresh over files, from the k-th on: the bunch as it is
\* when the loop ends or throws, and the calls made on the connection
loadFiles(files, k, bunch, connection, context) ==
    IF k > Len(files) THEN [ok |-> TRUE, bunch |-> bunch, conCalls |-> <<>>]
    ELSE IF ~IsScriptSuffix(suffixLower(files[k]))
    THEN loadFiles(files, k + 1, bunch, connection, context)
    ELSE IF ~files[k].readable
    THEN [ok |-> FALSE, bunch |-> bunch, conCalls |-> <<>>]
    ELSE LET rest == loadFiles(files, k + 1,
                        insert(bunch, files[k].base,
                               Script(files[k], scriptVersion(connection, context).version)),
                        connection, context)
         IN  [ok |-> rest.ok, bunch |-> rest.bunch,
              conCalls |-> (IF scriptVersion(connection, context).asks
                            THEN <<"dbmsComparableVersion">> ELSE <<>>)
                              \o rest.conCalls]

\* refresh from line 158 on: r is what dbmsScriptPath did (it did not
\* throw), loaded what the loop over the files of r.path did
refreshLoaded(r, scripts, loaded) ==
    [ok |-> loaded.ok,
     err |-> IF loaded.ok THEN "" ELSE "can't open",
     paths |-> r.paths,
     scripts |-> setBunch(scripts, r.path, loaded.bunch),
     conCalls |-> pathConCalls(r) \o loaded.conCalls]

\* refresh from line 155 on: r is what dbmsScriptPath did
refreshAt(r, scripts, fl, connection, context) ==
    IF ~r.ok
    THEN [ok |-> FALSE, err |-> r.err, paths |-> r.paths, scripts |-> scripts,
          conCalls |-> pathConCalls(r)]
    ELSE refreshLoaded(r, scripts,
                       loadFiles(entryInfoList(fl, r.path), 1, EmptyBunch,
                                 connection, context))

\* what a call of refresh does: ok or err (the text thrown), the two caches
\* after the call, the calls made on the connection
refresh(paths, scripts, fs, fl, connection, context) ==
    IF connection = Null
    THEN [ok |-> TRUE, err |-> "", paths |-> paths, scripts |-> scripts, conCalls |-> <<>>]
    ELSE refreshAt(dbmsScriptPath(paths, fs, connection, context), scripts, fl,
                   connection, context)

\* getScript from line 187 on, when the bunch was empty: r is what
\* dbmsScriptPath did, fresh what refresh did
getScriptRefreshed(r, fresh, objectType) ==
    IF ~fresh.ok
    THEN [ok |-> FALSE, err |-> fresh.err, script |-> Null, path |-> r.path,
          paths |-> fresh.paths, scripts |-> fresh.scripts,
          conCalls |-> pathConCalls(r) \o fresh.conCalls, refreshed |-> TRUE]
    ELSE [ok |-> TRUE, err |-> "",
          script |-> find(bunchOf(fresh.scripts, r.path), objectType),
          path |-> r.path,
          paths |-> fresh.paths, scripts |-> fresh.scripts,
          conCalls |-> pathConCalls(r) \o fresh.conCalls, refreshed |-> TRUE]

\* getScript from line 186 on: r is what dbmsScriptPath did
getScriptAt(r, scripts, fs, fl, connection, context, objectType) ==
    IF ~r.ok
    THEN [ok |-> FALSE, err |-> r.err, script |-> Null, path |-> <<>>,
          paths |-> r.paths, scripts |-> scripts,
          conCalls |-> pathConCalls(r), refreshed |-> FALSE]
    ELSE IF isEmpty(bunchOf(scripts, r.path))
    THEN getScriptRefreshed(r, refresh(r.paths, scripts, fs, fl, connection, context),
                            objectType)
    ELSE [ok |-> TRUE, err |-> "",
          script |-> find(bunchOf(scripts, r.path), objectType),
          path |-> r.path,
          paths |-> r.paths, scripts |-> scripts,
          conCalls |-> pathConCalls(r), refreshed |-> FALSE]

\* what a call of getScript does: ok and script (Null: nullptr) or err, the
\* two caches after the call, the calls made on the connection, and
\* whether refresh was called
getScript(paths, scripts, fs, fl, connection, context, objectType) ==
    getScriptAt(dbmsScriptPath(paths, fs, connection, context), scripts, fs, fl,
                connection, context, objectType)

(***************************************************************************)
(* execute: replacement of the macros (lines 205-221)                      *)
(***************************************************************************)
\* \w of QRegularExpression: [A-Za-z0-9_]
IsWord(c) ==
    \/ IsDigit(c)
    \/ c \in {"a", "b", "c", "d", "e", "f", "g", "h", "i", "j", "k", "l", "m",
              "n", "o", "p", "q", "r", "s", "t", "u", "v", "w", "x", "y", "z",
              "A", "B", "C", "D", "E", "F", "G", "H", "I", "J", "K", "L", "M",
              "N", "O", "P", "Q", "R", "S", "T", "U", "V", "W", "X", "Y", "Z",
              "_"}

RECURSIVE SkipWord(_, _)
\* \w* (greedy): the first index >= i that holds no word character
SkipWord(s, i) == IF IsWord(At(s, i)) THEN SkipWord(s, i + 1) ELSE i

\* expr, \$(\w+\.\w+)\$, read at 1-based index i of s: last is the index of
\* the closing $. A dot and a $ are no word characters, so the greedy match
\* is the only one.
MacroAt(s, i) ==
    LET d == SkipWord(s, i + 1)
        e == SkipWord(s, d + 1)
        ok == /\ At(s, i) = "$"
              /\ d > i + 1
              /\ At(s, d) = "."
              /\ e > d + 1
              /\ At(s, e) = "$"
    IN  [ok |-> ok,
         captured1 |-> IF ok THEN SubSeq(s, i + 1, e - 1) ELSE <<>>,
         last |-> IF ok THEN e ELSE 0]

\* QStringList::contains
contains(list, x) == \E k \in DOMAIN list : list[k] = x

RECURSIVE searchMacros(_, _, _)
\* the while loop over expr.globalMatch(query): the matches do not overlap,
\* the search goes on after the closing $ of a match
searchMacros(s, i, macros) ==
    IF i > Len(s) THEN macros
    ELSE IF At(s, i) # "$" THEN searchMacros(s, i + 1, macros)
    ELSE LET match == MacroAt(s, i)
         IN  IF ~match.ok THEN searchMacros(s, i + 1, macros)
             ELSE searchMacros(s, match.last + 1,
                               IF contains(macros, match.captured1) THEN macros
                               ELSE Append(macros, match.captured1))

\* before occurs in s at 1-based index i
OccursAt(s, before, i) ==
    /\ i + Len(before) - 1 <= Len(s)
    /\ SubSeq(s, i, i + Len(before) - 1) = before

RECURSIVE replaceFrom(_, _, _, _)
replaceFrom(s, i, before, after) ==
    IF i > Len(s) THEN <<>>
    ELSE IF OccursAt(s, before, i)
         THEN after \o replaceFrom(s, i + Len(before), before, after)
         ELSE <<s[i]>> \o replaceFrom(s, i + 1, before, after)

\* QString::replace(before, after): every occurrence of before, found from
\* left to right without overlap; the text put in is not searched again
replace(s, before, after) == replaceFrom(s, 1, before, after)

NULL == <<"N", "U", "L", "L">>

\* one turn of the foreach loop: value.isEmpty() ? "NULL" : value
replaceMacro(query, macro, value) ==
    replace(query, <<"$">> \o macro \o <<"$">>, IF value = <<>> THEN NULL ELSE value)

RECURSIVE replaceMacros(_, _, _)
\* the foreach loop over macros; cb[macro] is envCallback(macro).toString()
replaceMacros(query, macros, cb) ==
    IF macros = <<>> THEN query
    ELSE replaceMacros(replaceMacro(query, Head(macros), cb[Head(macros)]),
                       Tail(macros), cb)

\* lines 203-221: the query executed and the calls of envCallback made
expandMacros(body, cb) ==
    LET macros == searchMacros(body, 1, <<>>)
    IN  [query |-> replaceMacros(body, macros, cb), calls |-> macros,
         values |-> [k \in DOMAIN macros |-> cb[macros[k]]]]

(***************************************************************************)
(* CppConductor, and the two ways execute runs a script                    *)
(*                                                                         *)
(* A DataTable is a number, its place in the sequence of the tables        *)
(* created (heap); deletes counts how often it was deleted.                *)
(***************************************************************************)
\* new CppConductor(connection, envCallback)
NewConductor == [resultsets |-> <<>>, scripts |-> <<>>, html |-> <<>>]

appendTable(env, table) == [env EXCEPT !.resultsets = Append(@, table)]

appendScript(env, script) == [env EXCEPT !.scripts = Append(@, script)]

appendHtml(env, html) == [env EXCEPT !.html = Append(@, html)]

\* delete t
delete(heap, t) == [heap EXCEPT ![t].deletes = @ + 1]

\* qDeleteAll(resultsets)
qDeleteAll(heap, resultsets) ==
    [t \in DOMAIN heap |->
        [heap[t] EXCEPT !.deletes =
            @ + Cardinality({k \in DOMAIN resultsets : resultsets[k] = t})]]

\* CppConductor::clear: the conductor and the tables after it
clear(env, heap) ==
    [env |-> NewConductor, heap |-> qDeleteAll(heap, env.resultsets)]

\* Mutant of destroy: a conductor that is dropped without its destructor
destroy_leaking(env, heap) == heap

\* CppConductor::~CppConductor, run when the unique_ptr that owns the
\* conductor goes out of scope: the tables after it
destroy(env, heap) == clear(env, heap).heap

\* a table as the connection makes it: not deleted
NewTable(shape) ==
    [rows |-> shape.rows, cols |-> shape.cols, name |-> shape.name,
     cell |-> shape.cell, deletes |-> 0]

\* Mutant of removeAt: the element stays in the list
removeAt_kept(list, i) == list

\* QList::removeAt(i), i counted from 1 here
removeAt(list, i) == SubSeq(list, 1, i - 1) \o SubSeq(list, i + 1, Len(list))

\* Mutant of isScalar: the shape of the table is not looked at
isScalar_anyShape(table) == table.rows >= 0

\* t->rowCount() == 1 && t->columnCount() == 1
isScalar(table) == table.rows = 1 /\ table.cols = 1

\* a step of a call of execute: what is called, and with what
Event(ev, arg) == [ev |-> ev, arg |-> arg]

RECURSIVE sqlLoop_ascending(_, _, _, _, _)
\* Mutant of sqlLoop: the result sets are taken from the first to the last
sqlLoop_ascending(resultsets, i, env, heap, trace) ==
    IF i < 1
    THEN [env |-> env, heap |-> heap, resultsets |-> resultsets, trace |-> trace]
    ELSE
    LET t == resultsets[1]
        left == removeAt(resultsets, 1)
    IN  IF isScalar(heap[t]) /\ heap[t].name = "script"
        THEN sqlLoop_ascending(left, i - 1, appendScript(env, heap[t].cell),
                               delete(heap, t), Append(trace, Event("appendScript", t)))
        ELSE IF isScalar(heap[t]) /\ heap[t].name = "html"
        THEN sqlLoop_ascending(left, i - 1, appendHtml(env, heap[t].cell),
                               delete(heap, t), Append(trace, Event("appendHtml", t)))
        ELSE sqlLoop_ascending(left, i - 1, appendTable(env, t), heap,
                               Append(trace, Event("appendTable", t)))

RECURSIVE sqlLoop(_, _, _, _, _)
\* the for loop of lines 226-251 from index i (counted from 1) down:
\* resultsets is connection->_resultsets, trace the calls made so far
sqlLoop(resultsets, i, env, heap, trace) ==
    IF i < 1
    THEN [env |-> env, heap |-> heap, resultsets |-> resultsets, trace |-> trace]
    ELSE
    LET t == resultsets[i]
        left == removeAt(resultsets, i)
    IN  IF isScalar(heap[t]) /\ heap[t].name = "script"
        THEN sqlLoop(left, i - 1, appendScript(env, heap[t].cell), delete(heap, t),
                     Append(trace, Event("appendScript", t)))
        ELSE IF isScalar(heap[t]) /\ heap[t].name = "html"
        THEN sqlLoop(left, i - 1, appendHtml(env, heap[t].cell), delete(heap, t),
                     Append(trace, Event("appendHtml", t)))
        ELSE sqlLoop(left, i - 1, appendTable(env, t), heap,
                     Append(trace, Event("appendTable", t)))

\* lines 225-251: connection->execute(query) has left the tables produced
\* (shapes, in the order produced) in connection->_resultsets
runSql(produced, env) ==
    sqlLoop([k \in 1..Len(produced) |-> k], Len(produced), env,
            [k \in 1..Len(produced) |-> NewTable(produced[k])], <<>>)

\* the table a call of exec in a QS script returns
ExecTable == [rows |-> 5, cols |-> 3, name |-> "c", cell |-> "x"]

RECURSIVE qsSteps(_, _, _, _)
\* e.evaluate(query), lines 288: the calls of returnTable, returnScript and
\* env the script makes before it ends or fails; env(type) is
\* CppConductor::value(type), which calls the callback (lines 301-304)
qsSteps(steps, env, heap, trace) ==
    IF steps = <<>> THEN [env |-> env, heap |-> heap, trace |-> trace]
    ELSE IF Head(steps) = "returnTable"
    THEN qsSteps(Tail(steps), appendTable(env, Len(heap) + 1),
                 Append(heap, NewTable(ExecTable)),
                 Append(trace, Event("appendTable", Len(heap) + 1)))
    ELSE IF Head(steps) = "returnScript"
    THEN qsSteps(Tail(steps), appendScript(env, "generated"), heap,
                 Append(trace, Event("appendScript", 0)))
    ELSE qsSteps(Tail(steps), env, heap, Append(trace, Event("value", 0)))

\* lines 255-290: the conductor and the tables when evaluate has returned
runQs(program, env) == qsSteps(program.steps, env, <<>>, <<>>)

(***************************************************************************)
(* Specification SpecVersion: versionSpecificPart applied to scripts put   *)
(* together from marker comments and plain pieces of text                  *)
(***************************************************************************)
MaxChunks == 3
MaxPlain == 2

\* /* V100+ */
M100 == [text |-> <<"/", "*", " ", "V", "1", "0", "0", "+", " ", "*", "/">>,
         number |-> 100, big |-> FALSE]
\* /*V200+*/
M200 == [text |-> <<"/", "*", "V", "2", "0", "0", "+", "*", "/">>,
         number |-> 200, big |-> FALSE]
\* /* V0300+*/
M300 == [text |-> <<"/", "*", " ", "V", "0", "3", "0", "0", "+", "*", "/">>,
         number |-> 300, big |-> FALSE]
\* /*V2147483648+*/ : the number written is INT_MAX + 1 (big: it is above
\* every int, number is not used)
MBig == [text |-> <<"/", "*", "V", "2", "1", "4", "7", "4", "8", "3", "6", "4", "8",
                    "+", "*", "/">>,
         number |-> 0, big |-> TRUE]

MarkerPieces == {M100, M200, M300, MBig}

TextA == <<"A">>
TextB == <<"B">>
\* comments that are no version markers: /*V100*/ , /*v100+*/ , /* V+ */
NoPlus == <<"/", "*", "V", "1", "0", "0", "*", "/">>
LowerV == <<"/", "*", "v", "1", "0", "0", "+", "*", "/">>
NoDigits == <<"/", "*", " ", "V", "+", " ", "*", "/">>

Contents == {<<>>, TextA, TextB}
PlainPieces == {TextA, NoPlus, LowerV, NoDigits}

PlainTexts == {Flatten(ps) : ps \in UNION {[1..n -> PlainPieces] : n \in 0..MaxPlain}}
Chunks == [marker : MarkerPieces, content : Contents]
ChunkSeqs == UNION {[1..n -> Chunks] : n \in 0..MaxChunks}
Versions == {-1, 50, 100, 250, 300}

RECURSIVE ChunksText(_)
ChunksText(cs) ==
    IF cs = <<>> THEN <<>>
    ELSE Head(cs).marker.text \o Head(cs).content \o ChunksText(Tail(cs))

\* the argument script
vScript == vPre \o ChunksText(vChunks)

ConductorOff ==
    /\ cEnv = Null /\ cHeap = <<>> /\ cHanded = <<>> /\ cLast = Null

ThreadsOff ==
    /\ threads = <<>>

ReentryOff ==
    /\ stack = <<>>

RefreshOff ==
    /\ rLast = Null

VersionOff ==
    /\ vPre = <<>> /\ vChunks = <<>> /\ vVersion = 0 /\ vResult = <<>> /\ vPc = "off"

MacroOff ==
    /\ mPieces = <<>> /\ mCb = <<>> /\ mQuery = <<>> /\ mCalls = <<>> /\ mPc = "off"

PathOff ==
    /\ dirs = {} /\ _dbms_paths = <<>> /\ pLast = Null /\ pPrev = Null

ExecOff ==
    /\ diskFiles = <<>> /\ _scripts = <<>> /\ tables = <<>> /\ held = Null /\ lastExec = Null

InitVersion ==
    /\ RefreshOff
    /\ ReentryOff
    /\ ThreadsOff
    /\ ConductorOff
    /\ MacroOff
    /\ PathOff
    /\ ExecOff
    /\ vChunks \in ChunkSeqs
    /\ vPre \in (IF vChunks = <<>> THEN PlainTexts ELSE {<<>>, NoPlus})
    /\ vVersion \in Versions
    /\ vResult = <<>>
    /\ vPc = "idle"

Select ==
    /\ vPc = "idle"
    /\ vResult' = versionSpecificPart(vScript, vVersion)
    /\ vPc' = "done"
    /\ UNCHANGED <<vPre, vChunks, vVersion>>
    /\ UNCHANGED <<macroVars, pathVars, execVars, conductorVars, threadVars, reentryVars, refreshVars>>

NextVersion == Select

SpecVersion == InitVersion /\ [][NextVersion]_vars

(***************************************************************************)
(* What the pieces a script was put together from say about it. These      *)
(* read the markers off the pieces, not off the characters.                *)
(***************************************************************************)
\* the number written in marker m is <= v (a big number is above every int)
NumberLeq(m, v) == ~m.big /\ m.number <= v

\* the key the program files marker m under
KeyOf(m) == IF m.big THEN 0 ELSE m.number

\* the text from the start of the k-th marker comment to the start of the next
SegmentFrom(k) == vChunks[k].marker.text \o vChunks[k].content

\* the text from the end of the k-th marker comment to the start of the next
SegmentAfter(k) == vChunks[k].content

\* the markers whose written number is <= the version
Qualifying == {k \in DOMAIN vChunks : NumberLeq(vChunks[k].marker, vVersion)}

\* the markers whose key is <= the version, and the one selected among them:
\* the greatest key, the last marker of those that share it
Selectable == {k \in DOMAIN vChunks : KeyOf(vChunks[k].marker) <= vVersion}
Selected ==
    CHOOSE k \in Selectable : \A j \in Selectable :
        \/ KeyOf(vChunks[j].marker) < KeyOf(vChunks[k].marker)
        \/ KeyOf(vChunks[j].marker) = KeyOf(vChunks[k].marker) /\ j <= k

\* C1 (as claimed): for a script with at least one marker, the result is the
\* segment of a marker whose written number is the greatest one <= version,
\* and the empty text when every written number is greater than version.
\* Segments are taken as the program cuts them (see C2), so that only the
\* selection is at stake here.
C1_GreatestNumberSelected ==
    (vPc = "done" /\ vChunks # <<>>) =>
        IF Qualifying = {}
        THEN vResult = <<>>
        ELSE \E k \in Qualifying :
                /\ \A j \in Qualifying : vChunks[j].marker.number <= vChunks[k].marker.number
                /\ vResult = SegmentFrom(k)

\* C2 (as claimed): the text returned for the selected marker runs from the
\* end of that marker comment to the start of the next marker comment.
C2_SegmentAfterMarker ==
    (vPc = "done" /\ Selectable # {}) => vResult = SegmentAfter(Selected)

\* C2 (amended): the text returned for the selected marker runs from the
\* start of that marker comment to the start of the next marker comment (or
\* the end of the text): the marker comment is part of the result.
C2_SegmentFromMarker ==
    (vPc = "done" /\ Selectable # {}) => vResult = SegmentFrom(Selected)

\* C2 witness: markers V100+, V200+, V300+ with contents A, B, A and
\* version 250: the V200+ comment followed by B was returned
C2_Witness ==
    /\ vPc = "done"
    /\ vPre = <<>>
    /\ vChunks = <<[marker |-> M100, content |-> TextA],
                   [marker |-> M200, content |-> TextB],
                   [marker |-> M300, content |-> TextA]>>
    /\ vVersion = 250
    /\ vResult = M200.text \o TextB

\* C3: a script without any version marker is returned unchanged, for every
\* version, -1 included.
C3_NoMarkerUnchanged ==
    (vPc = "done" /\ vChunks = <<>>) => vResult = vScript

\* C3 witness: a text of two comments that only resemble markers, returned
\* whole for version -1
C3_Witness ==
    /\ vPc = "done"
    /\ vChunks = <<>>
    /\ vPre = NoPlus \o LowerV
    /\ vVersion = -1
    /\ vResult = NoPlus \o LowerV

(***************************************************************************)
(* Specification SpecMacro: the macro replacement of execute applied to    *)
(* script bodies put together from macros and plain text                   *)
(***************************************************************************)
MaxPieces == 4

NameAB == <<"a", ".", "b">>
NameCD == <<"c", ".", "d">>
MacroNames == {NameAB, NameCD}

MacroPiece(name) == [macro |-> TRUE, name |-> name, text |-> <<"$">> \o name \o <<"$">>]
TextPiece(text) == [macro |-> FALSE, name |-> <<>>, text |-> text]

\* " x=" , "$a$" (no dot: no macro) and "a.b$", which right after the
\* closing $ of a macro reads as $a.b$ once more
PlainX == TextPiece(<<" ", "x", "=">>)
OneWord == TextPiece(<<"$", "a", "$", " ">>)
Dangling == TextPiece(<<"a", ".", "b", "$">>)

BodyPieces == {MacroPiece(n) : n \in MacroNames} \cup {PlainX, OneWord, Dangling}

\* Dangling only follows a macro, so that the macros the left-to-right
\* search finds are those of the macro pieces
Bodies ==
    {ps \in UNION {[1..n -> BodyPieces] : n \in 0..MaxPieces} :
        \A k \in DOMAIN ps : ps[k] = Dangling => (k > 1 /\ ps[k - 1].macro)}

Values == {<<>>, <<"1">>, <<"2", "2">>}
Callbacks == [MacroNames -> Values]

RECURSIVE PiecesText(_)
PiecesText(ps) == IF ps = <<>> THEN <<>> ELSE Head(ps).text \o PiecesText(Tail(ps))

\* s->body
mBody == PiecesText(mPieces)

InitMacro ==
    /\ RefreshOff
    /\ ReentryOff
    /\ ThreadsOff
    /\ ConductorOff
    /\ VersionOff
    /\ PathOff
    /\ ExecOff
    /\ mPieces \in Bodies
    /\ mCb \in Callbacks
    /\ mQuery = <<>>
    /\ mCalls = <<>>
    /\ mPc = "idle"

Expand ==
    /\ mPc = "idle"
    /\ mQuery' = expandMacros(mBody, mCb).query
    /\ mCalls' = expandMacros(mBody, mCb).calls
    /\ mPc' = "done"
    /\ UNCHANGED <<mPieces, mCb>>
    /\ UNCHANGED <<versionVars, pathVars, execVars, conductorVars, threadVars, reentryVars, refreshVars>>

NextMacro == Expand

SpecMacro == InitMacro /\ [][NextMacro]_vars

RECURSIVE FirstOccurrences(_, _)
\* the names of the macro pieces, each once, in the order they first occur
FirstOccurrences(ps, seen) ==
    IF ps = <<>> THEN seen
    ELSE FirstOccurrences(Tail(ps),
            IF Head(ps).macro /\ ~contains(seen, Head(ps).name)
            THEN Append(seen, Head(ps).name) ELSE seen)

RECURSIVE Substituted(_, _)
\* the body with every macro piece replaced by its value, NULL for an empty one
Substituted(ps, cb) ==
    IF ps = <<>> THEN <<>>
    ELSE (IF Head(ps).macro
          THEN (IF cb[Head(ps).name] = <<>> THEN NULL ELSE cb[Head(ps).name])
          ELSE Head(ps).text)
         \o Substituted(Tail(ps), cb)

\* C4 (as claimed): envCallback is called exactly once per distinct macro of
\* the body, in first-occurrence order, and every occurrence of a macro is
\* replaced by NULL when its value is empty and by its value otherwise.
C4_EachMacroOnceAllReplaced ==
    mPc = "done" =>
        /\ mCalls = FirstOccurrences(mPieces, <<>>)
        /\ mQuery = Substituted(mPieces, mCb)

\* C4, the part about the calls alone
C4_CallsOncePerMacro ==
    mPc = "done" => mCalls = FirstOccurrences(mPieces, <<>>)

\* C4, bodies in which no $ is shared by two occurrences of macros
C4_ReplacedWithoutSharedDollar ==
    (mPc = "done" /\ \A k \in DOMAIN mPieces : mPieces[k] # Dangling) =>
        mQuery = Substituted(mPieces, mCb)

(***************************************************************************)
(* Specification SpecPath: calls of dbmsScriptPath, for several            *)
(* connections and contexts, on one installation                           *)
(***************************************************************************)
Contexts == {"Root", "Tree", "Content", "Preview"}

\* a directory with its three context folders
WithContexts(base) == {base} \cup {base \o <<c>> : c \in {"tree", "content", "preview"}}

Scripts == <<"scripts">>
ScriptsPg == <<"scripts", "pg">>
ScriptsOdbc == <<"scripts", "odbc">>
OdbcDefault == <<"scripts", "odbc", "default">>
OdbcMs == <<"scripts", "odbc", "ms">>

\* a complete installation
FullDirs ==
    WithContexts(Scripts) \cup WithContexts(ScriptsPg) \cup {ScriptsOdbc}
        \cup WithContexts(OdbcDefault) \cup WithContexts(OdbcMs)

\* installations: complete; some context folders missing; no odbc folder;
\* no odbc/default folder
Installations ==
    { FullDirs,
      FullDirs \ {OdbcDefault \o <<"content">>, Scripts \o <<"preview">>,
                  ScriptsPg \o <<"tree">>},
      WithContexts(Scripts) \cup WithContexts(ScriptsPg),
      FullDirs \ WithContexts(OdbcDefault) }

\* connections: odbc is qobject_cast<OdbcConnection*>(con) # nullptr, name,
\* version and cmp are dbmsName(), dbmsVersion() and dbmsComparableVersion()
ConPg == [odbc |-> FALSE, name |-> <<"P", "g">>, version |-> <<"9">>, cmp |-> 100]
ConPg2 == [odbc |-> FALSE, name |-> <<"P", "g">>, version |-> <<"1", "0">>, cmp |-> 250]
ConMs == [odbc |-> TRUE, name |-> <<"M", "s">>, version |-> <<"1">>, cmp |-> 100]
ConXo == [odbc |-> TRUE, name |-> <<"X", "y">>, version |-> <<"1">>, cmp |-> 50]
ConXn == [odbc |-> FALSE, name |-> <<"X", "y">>, version |-> <<"1">>, cmp |-> 100]
ConXs == [odbc |-> FALSE, name |-> <<"X">>, version |-> <<"y", "1">>, cmp |-> 100]
ConNoName == [odbc |-> TRUE, name |-> <<>>, version |-> <<"1">>, cmp |-> 100]

Connections == {ConPg, ConMs, ConXo, ConXn, ConXs, ConNoName}

InitPath ==
    /\ RefreshOff
    /\ ReentryOff
    /\ ThreadsOff
    /\ ConductorOff
    /\ VersionOff
    /\ MacroOff
    /\ ExecOff
    /\ dirs \in Installations
    /\ _dbms_paths = <<>>
    /\ pLast = Null
    /\ pPrev = Null

\* a call dbmsScriptPath(con, context); known: whether the cache held the
\* identity of con when the call was made
Resolve(con, context) ==
    LET r == dbmsScriptPath(_dbms_paths, dirs, con, context)
    IN  /\ _dbms_paths' = r.paths
        /\ pLast' = [con |-> con, context |-> context, ok |-> r.ok, err |-> r.err,
                     path |-> r.path, cached |-> r.cached, reads |-> r.reads,
                     known |-> (con # Null /\ (con.name \o con.version) \in DOMAIN _dbms_paths)]
        /\ pPrev' = pLast
        /\ UNCHANGED dirs
        /\ UNCHANGED <<versionVars, macroVars, execVars, conductorVars, threadVars, reentryVars, refreshVars>>

NextPath == \E con \in Connections \cup {Null}, context \in Contexts : Resolve(con, context)

SpecPath == InitPath /\ [][NextPath]_vars

\* C7: of two consecutive successful calls for the same connection and
\* context, the second returns the path of the first and is answered from
\* the cache, without any access to the file system.
C7_SecondCallCacheOnly ==
    (/\ pPrev # Null /\ pLast # Null
     /\ pPrev.con = pLast.con /\ pPrev.context = pLast.context
     /\ pPrev.ok /\ pLast.ok)
    => (pLast.path = pPrev.path /\ pLast.cached /\ pLast.reads = 0)

\* C7 witness: a first call that searched the file system and a second one
\* for the same connection and context that did not
C7_Witness ==
    /\ pPrev # Null /\ pLast # Null
    /\ pPrev.con = ConPg /\ pLast.con = ConPg
    /\ pPrev.context = "Tree" /\ pLast.context = "Tree"
    /\ pPrev.ok /\ pPrev.reads = 3
    /\ pLast.ok /\ pLast.reads = 0
    /\ pLast.path = ScriptsPg \o <<"tree">>

\* C8 (as claimed): a call whose resolved directory plus context folder does
\* not exist fails; so the path a successful call returns exists.
C8_MissingDirectoryFails ==
    (pLast # Null /\ pLast.ok) => exists(dirs, pLast.path)

\* C8 (amended): a call for an identity the cache does not hold yet fails
\* when the resolved directory plus context folder does not exist, with one
\* of the two directory errors; a call for an identity the cache holds
\* succeeds without any access to the file system, whether the directory
\* exists or not.
C8_MissingDirectoryFailsOnMiss ==
    pLast # Null =>
        /\ (~pLast.known /\ pLast.ok) => exists(dirs, pLast.path)
        /\ (~pLast.known /\ ~pLast.ok /\ pLast.con # Null /\ pLast.con.name # <<>>)
              => pLast.err \in {"directory does not exist", "directory is not available"}
        /\ pLast.known => (pLast.ok /\ pLast.reads = 0)

\* C8 witness: after a successful call, a call for the same connection and
\* a context whose folder is missing returns a path that does not exist
C8_Witness ==
    /\ pPrev # Null /\ pLast # Null
    /\ pPrev.con = pLast.con /\ pPrev.ok /\ pPrev.context # pLast.context
    /\ pLast.known /\ pLast.ok
    /\ ~exists(dirs, pLast.path)

\* the name of the connection contains the name of no folder of the
\* directory searched for it
Unmatched(con) ==
    \A d \in {"content", "default", "ms", "odbc", "pg", "preview", "tree"} :
        ((IF con.odbc THEN ScriptsOdbc ELSE Scripts) \o <<d>>) \in dirs
            => ~containsCaseInsensitive(con.name, DirChars(d))

\* C9 (as claimed): a connection whose name contains no folder name resolves
\* under scripts/odbc/default/ when it is ODBC-driven and under scripts/
\* when it is not, whatever was resolved before.
C9_UnmatchedFallback ==
    (pLast # Null /\ pLast.ok /\ Unmatched(pLast.con)) =>
        pLast.path = (IF pLast.con.odbc THEN OdbcDefault ELSE Scripts)
                        \o contextFolder(pLast.context)

(***************************************************************************)
(* Specification Spec: calls of execute and refresh by one caller, on one  *)
(* installation with script files, for several connections                 *)
(***************************************************************************)
MaxResults == 2
MaxSteps == 2

\* a file of a directory: QFileInfo::baseName, QFileInfo::suffix, the text
\* of the file, and whether QFile::open(ReadOnly) succeeds
File(base, suffix, content, readable) ==
    [base |-> base, suffix |-> suffix, content |-> content, readable |-> readable,
     hidden |-> FALSE]

\* a file whose name begins with a dot: hidden; its baseName() is empty
HiddenFile(suffix, content) ==
    [base |-> "", suffix |-> suffix, content |-> content, readable |-> TRUE,
     hidden |-> TRUE]

Sql == <<"s", "q", "l">>
Qs == <<"q", "s">>
MacroAB == <<"$">> \o NameAB \o <<"$">>
MacroCD == <<"$">> \o NameCD \o <<"$">>

\* scripts/pg/tree/tables.sql
TablesBody100 == <<"t", "=">> \o MacroAB
TablesBody200 == <<"u", "=">> \o MacroAB \o MacroCD
TablesSql == M100.text \o TablesBody100 \o M200.text \o TablesBody200

\* the directories of the installation: complete, but for one context folder
MainDirs == FullDirs \ {OdbcDefault \o <<"preview">>}

\* the files of a directory, in the order QDir lists them (by name)
FilesOf(path) ==
    CASE path = ScriptsPg \o <<"tree">> ->
            << File("dup", Qs, <<"q">>, TRUE),
               File("dup", Sql, <<"s">>, TRUE),
               File("indexes", Sql, M100.text \o <<"i">>, TRUE),
               File("notes", <<"t", "x", "t">>, <<"n">>, TRUE),
               File("report", Qs, <<"r">> \o MacroAB, TRUE),
               File("tables", Sql, TablesSql, TRUE),
               File("views", <<"S", "Q", "L">>, <<"v">>, TRUE) >>
      [] path = ScriptsPg ->
            << File("gated", Sql, <<"g">> \o M100.text \o <<"h">>, TRUE),
               File("version", Sql, <<"s">>, TRUE) >>
      [] path = OdbcDefault \o <<"tree">> ->
            << File("tables", Sql, <<"p">> \o M100.text \o <<"t">>, TRUE) >>
      [] path = OdbcDefault \o <<"content">> ->
            << File("a", Sql, <<"a">>, TRUE),
               File("b", Sql, <<"b">>, FALSE),
               File("c", Sql, <<"c">>, TRUE) >>
      [] OTHER -> <<>>

MainFiles == [path \in MainDirs |-> FilesOf(path)]

MainConnections == {ConPg, ConPg2, ConXo}
ObjectTypes == {"tables", "indexes", "report", "gated", "dup", "a", "c", "notes", "nothing"}

\* envCallback: the value of each macro
MainCallbacks ==
    { [n \in MacroNames |-> IF n = NameAB THEN <<"1">> ELSE <<>>],
      [n \in MacroNames |-> IF n = NameAB THEN <<"2", "2">> ELSE <<"1">>] }

\* result sets a query can produce: rowCount, columnCount, the name of
\* column 0 and the text of the cell (0, 0)
Shape(rows, cols, name, cell) == [rows |-> rows, cols |-> cols, name |-> name, cell |-> cell]

Html11 == Shape(1, 1, "html", "h")
Script11 == Shape(1, 1, "script", "s")
Upper11 == Shape(1, 1, "HTML", "H")
Html53 == Shape(5, 3, "html", "w")

Shapes == {Html11, Script11, Upper11, Html53}
ResultLists == UNION {[1..n -> Shapes] : n \in 0..MaxResults}

\* what the evaluation of a QS script does: its calls of returnTable,
\* returnScript and env, and whether it ends in an error
Programs ==
    [steps : UNION {[1..n -> {"returnTable", "returnScript", "env"}] : n \in 0..MaxSteps},
     fails : BOOLEAN]

\* arguments of a call that does not get to use them
NoCallback == [n \in MacroNames |-> <<>>]
NoResults == <<>>
NoProgram == [steps |-> <<>>, fails |-> FALSE]

\* Mutant of cachedAfter: the replacement of the macros works on the cache
cachedAfter_lost(s, query) == <<>>

\* line 203, QString query = s->body: query is a copy, so _scripts is after
\* the replacement of the macros what getScript left
cachedAfter(s, query) == s.scripts

\* line 219: the calls of envCallback, one for each macro
callbackSteps(calls) == [k \in DOMAIN calls |-> Event("envCallback", calls[k])]

\* Mutant of stepsInOrder: the macros are replaced after the script has run
stepsInOrder_late(lookup, expanded, dispatched) == lookup \o dispatched \o expanded

\* the calls execute makes, in the order of its statements: getScript
\* (line 199), the replacement of the macros (lines 216-221), the run of the
\* script (lines 223-291)
stepsInOrder(lookup, expanded, dispatched) == lookup \o expanded \o dispatched

\* what a call of execute did when getScript (s) threw: the conductor is
\* destroyed with the unique_ptr that owns it. env is the conductor when the
\* call ends, returned whether the caller gets it, heap the tables created,
\* resultsets connection->_resultsets after the call.
executeThrown(s) ==
    [lookup |-> s.ok, path |-> s.path, paths |-> s.paths,
     scripts |-> s.scripts, refreshed |-> s.refreshed, conCalls |-> s.conCalls,
     outcome |-> "error", err |-> s.err, kind |-> "none", script |-> s.script,
     query |-> <<>>, cbCalls |-> <<>>, cbValues |-> <<>>,
     executed |-> <<>>, evaluated |-> <<>>,
     trace |-> <<Event("getScript", 0), Event(IF s.ok THEN "return" ELSE "throw", 0)>>,
     env |-> NewConductor, returned |-> FALSE,
     heap |-> destroy(NewConductor, <<>>), resultsets |-> <<>>]

\* lines 223-252 and 293: x is what the replacement of the macros did, sql
\* what the loop over the result sets did
executeSql(s, x, sql) ==
    [executeThrown(s) EXCEPT
        !.outcome = "returned", !.err = "", !.kind = "SQL",
        !.scripts = cachedAfter(s, x.query),
        !.query = x.query, !.cbCalls = x.calls, !.cbValues = x.values,
        !.executed = <<x.query>>,
        !.trace = stepsInOrder(<<Event("getScript", 0)>>, callbackSteps(x.calls),
                               <<Event("execute", 0)>> \o sql.trace
                                   \o <<Event("return", 0)>>),
        !.env = sql.env, !.returned = TRUE,
        !.heap = sql.heap, !.resultsets = sql.resultsets]

\* lines 253-293: qs is what e.evaluate(query) did before it ended; when it
\* ended in an error execute throws and the conductor is destroyed
executeQs(s, x, qs, fails) ==
    IF fails
    THEN [executeThrown(s) EXCEPT
            !.err = "error at line", !.kind = "QS",
            !.scripts = cachedAfter(s, x.query),
            !.query = x.query, !.cbCalls = x.calls, !.cbValues = x.values,
            !.evaluated = <<x.query>>,
            !.trace = stepsInOrder(<<Event("getScript", 0)>>, callbackSteps(x.calls),
                                   <<Event("evaluate", 0)>> \o qs.trace
                                       \o <<Event("throw", 0)>>),
            !.env = qs.env, !.heap = destroy(qs.env, qs.heap)]
    ELSE [executeThrown(s) EXCEPT
            !.outcome = "returned", !.err = "", !.kind = "QS",
            !.scripts = cachedAfter(s, x.query),
            !.query = x.query, !.cbCalls = x.calls, !.cbValues = x.values,
            !.evaluated = <<x.query>>,
            !.trace = stepsInOrder(<<Event("getScript", 0)>>, callbackSteps(x.calls),
                                   <<Event("evaluate", 0)>> \o qs.trace
                                       \o <<Event("return", 0)>>),
            !.env = qs.env, !.returned = TRUE, !.heap = qs.heap]

\* execute from line 199 on, s being what getScript did. produced: the
\* result sets connection->execute leaves for the query; program: what
\* e.evaluate does with the query.
runScript(s, envCallback, produced, program) ==
    IF ~s.ok THEN executeThrown(s)
    ELSE IF s.script = Null
    THEN [executeThrown(s) EXCEPT !.outcome = "absent"]
    ELSE IF s.script.type = "SQL"
    THEN executeSql(s, expandMacros(s.script.body, envCallback),
                    runSql(produced, NewConductor))
    ELSE executeQs(s, expandMacros(s.script.body, envCallback),
                   runQs(program, NewConductor), program.fails)

Init ==
    /\ RefreshOff
    /\ ReentryOff
    /\ ThreadsOff
    /\ ConductorOff
    /\ VersionOff
    /\ MacroOff
    /\ dirs = MainDirs
    /\ _dbms_paths = <<>>
    /\ pLast = Null
    /\ pPrev = Null
    /\ diskFiles = MainFiles
    /\ _scripts = <<>>
    /\ tables = <<>>
    /\ held = Null
    /\ lastExec = Null

\* the caller is not handling the result of a call
Idle == lastExec = Null /\ held = Null

\* the state after a call of execute that did r
Executed(connection, context, objectType, produced, r) ==
    /\ _dbms_paths' = r.paths
    /\ _scripts' = r.scripts
    /\ tables' = r.heap
    /\ held' = IF r.returned THEN r.env ELSE Null
    /\ lastExec' = [con |-> connection, context |-> context, objectType |-> objectType,
                    produced |-> produced,
                    lookup |-> r.lookup, path |-> r.path, refreshed |-> r.refreshed,
                    conCalls |-> r.conCalls, outcome |-> r.outcome, err |-> r.err,
                    kind |-> r.kind, script |-> r.script,
                    query |-> r.query, cbCalls |-> r.cbCalls, cbValues |-> r.cbValues,
                    executed |-> r.executed, evaluated |-> r.evaluated,
                    trace |-> r.trace,
                    env |-> r.env, resultsets |-> r.resultsets]
    /\ UNCHANGED <<dirs, diskFiles, pLast, pPrev>>
    /\ UNCHANGED <<versionVars, macroVars, conductorVars, threadVars, reentryVars, refreshVars>>

\* Scripting::getScript(connection.get(), context, objectType), line 199
Lookup(connection, context, objectType) ==
    getScript(_dbms_paths, _scripts, dirs, diskFiles, connection, context, objectType)

\* a call of execute in which getScript throws
ExecuteThrows(connection, context, objectType) ==
    /\ Idle
    /\ \E s \in {Lookup(connection, context, objectType)} :
          /\ ~s.ok
          /\ Executed(connection, context, objectType, NoResults,
                      runScript(s, NoCallback, NoResults, NoProgram))

\* a call of execute in which getScript returns nullptr
ExecuteAbsent(connection, context, objectType) ==
    /\ Idle
    /\ \E s \in {Lookup(connection, context, objectType)} :
          /\ s.ok
          /\ s.script = Null
          /\ Executed(connection, context, objectType, NoResults,
                      runScript(s, NoCallback, NoResults, NoProgram))

\* a call of execute that runs an SQL script
ExecuteSql(connection, context, objectType) ==
    /\ Idle
    /\ \E s \in {Lookup(connection, context, objectType)} :
          /\ s.ok
          /\ s.script # Null
          /\ s.script.type = "SQL"
          /\ \E envCallback \in MainCallbacks, produced \in ResultLists :
                Executed(connection, context, objectType, produced,
                         runScript(s, envCallback, produced, NoProgram))

\* a call of execute that runs a QS script
ExecuteQs(connection, context, objectType) ==
    /\ Idle
    /\ \E s \in {Lookup(connection, context, objectType)} :
          /\ s.ok
          /\ s.script # Null
          /\ s.script.type = "QS"
          /\ \E envCallback \in MainCallbacks, program \in Programs :
                Executed(connection, context, objectType, NoResults,
                         runScript(s, envCallback, NoResults, program))

\* a call refresh(connection, context) by the caller
RefreshCall(connection, context) ==
    /\ Idle
    /\ \E r \in {refresh(_dbms_paths, _scripts, dirs, diskFiles, connection, context)} :
          /\ _dbms_paths' = r.paths
          /\ _scripts' = r.scripts
    /\ UNCHANGED <<dirs, diskFiles, pLast, pPrev, tables, held, lastExec>>
    /\ UNCHANGED <<versionVars, macroVars, conductorVars, threadVars, reentryVars, refreshVars>>

\* the caller calls clear() on the conductor it holds
ClearHeld ==
    /\ held # Null
    /\ held' = clear(held, tables).env
    /\ tables' = clear(held, tables).heap
    /\ UNCHANGED <<dirs, diskFiles, pLast, pPrev, _dbms_paths, _scripts, lastExec>>
    /\ UNCHANGED <<versionVars, macroVars, conductorVars, threadVars, reentryVars, refreshVars>>

\* the caller lets go of the unique_ptr it got: the conductor is destroyed
Release ==
    /\ held # Null
    /\ held' = Null
    /\ tables' = destroy(held, tables)
    /\ UNCHANGED <<dirs, diskFiles, pLast, pPrev, _dbms_paths, _scripts, lastExec>>
    /\ UNCHANGED <<versionVars, macroVars, conductorVars, threadVars, reentryVars, refreshVars>>

\* the caller is done with the result of the call
Forget ==
    /\ lastExec # Null
    /\ held = Null
    /\ lastExec' = Null
    /\ tables' = <<>>
    /\ UNCHANGED <<dirs, diskFiles, pLast, pPrev, _dbms_paths, _scripts, held>>
    /\ UNCHANGED <<versionVars, macroVars, conductorVars, threadVars, reentryVars, refreshVars>>

\* the caller makes its next call (Idle) only when it is done with the
\* result of the one before
Next ==
    \/ \E connection \in MainConnections \cup {Null}, context \in Contexts,
          objectType \in ObjectTypes :
            \/ ExecuteThrows(connection, context, objectType)
            \/ ExecuteAbsent(connection, context, objectType)
            \/ ExecuteSql(connection, context, objectType)
            \/ ExecuteQs(connection, context, objectType)
    \/ \E connection \in MainConnections \cup {Null}, context \in Contexts :
          RefreshCall(connection, context)
    \/ ClearHeld
    \/ Release
    \/ Forget

Spec == Init /\ [][Next]_vars

Range(f) == {f[k] : k \in DOMAIN f}

IsHtmlCell(shape) == shape.rows = 1 /\ shape.cols = 1 /\ shape.name = "html"
IsScriptCell(shape) == shape.rows = 1 /\ shape.cols = 1 /\ shape.name = "script"

\* the latest call ran an SQL script to its end
SqlCompleted ==
    lastExec # Null /\ lastExec.kind = "SQL" /\ lastExec.outcome = "returned"

\* C5: of the result sets an SQL script produced, a 1x1 one with column name
\* html has its cell in the HTML sequence and is no table of the conductor,
\* a 1x1 one with column name script has its cell in the script sequence and
\* is no table of the conductor, and every other one is a table of the
\* conductor; the two text sequences hold nothing else.
C5_ResultClassification ==
    SqlCompleted =>
        LET produced == lastExec.produced
            env == lastExec.env
        IN  /\ \A k \in DOMAIN produced :
                  IF IsHtmlCell(produced[k])
                  THEN /\ produced[k].cell \in Range(env.html)
                       /\ k \notin Range(env.resultsets)
                  ELSE IF IsScriptCell(produced[k])
                  THEN /\ produced[k].cell \in Range(env.scripts)
                       /\ k \notin Range(env.resultsets)
                  ELSE k \in Range(env.resultsets)
            /\ Len(env.html) = Cardinality({k \in DOMAIN produced : IsHtmlCell(produced[k])})
            /\ Len(env.scripts) = Cardinality({k \in DOMAIN produced : IsScriptCell(produced[k])})
            /\ Len(env.resultsets) =
                  Cardinality({k \in DOMAIN produced :
                                  ~IsHtmlCell(produced[k]) /\ ~IsScriptCell(produced[k])})

\* C5 witness: a 1x1 html result set and a 5x3 one with column name html;
\* the first is in the HTML sequence, the second is the only table
C5_Witness ==
    /\ SqlCompleted
    /\ lastExec.objectType = "indexes" /\ lastExec.context = "Tree"
    /\ lastExec.produced = <<Html11, Html53>>
    /\ lastExec.env.html = <<"h">>
    /\ lastExec.env.scripts = <<>>
    /\ lastExec.env.resultsets = <<2>>

\* the directory path holds no .sql or .qs file with base name objectType
NoScriptFile(path, objectType) ==
    \A k \in DOMAIN entryInfoList(diskFiles, path) :
        LET f == entryInfoList(diskFiles, path)[k]
        IN  ~(f.base = objectType /\ FoldCase(f.suffix) \in {Sql, Qs})

\* the latest call looked a script up, without an error, in a directory
\* that holds no script file for its object type
LookedUpNoFile ==
    /\ lastExec # Null
    /\ lastExec.lookup
    /\ NoScriptFile(lastExec.path, lastExec.objectType)

\* C6 (as claimed): when the resolved directory holds no script file for the
\* object type, execute returns absent without any call on the connection,
\* without the sandbox and without the environment callback.
C6_AbsentWithoutConnection ==
    LookedUpNoFile =>
        /\ lastExec.outcome = "absent"
        /\ lastExec.conCalls = <<>>
        /\ lastExec.executed = <<>> /\ lastExec.evaluated = <<>>
        /\ lastExec.cbCalls = <<>>

\* C6 (amended): when the lookup does not fail and the resolved directory
\* holds no script file for the object type, execute returns absent: no
\* text is executed on the connection or evaluated in the sandbox, the
\* environment callback is not called and no conductor reaches the caller.
\* The connection is used all the same: it is opened and asked for its name
\* and version.
C6_AbsentWithoutRunning ==
    LookedUpNoFile =>
        /\ lastExec.outcome = "absent"
        /\ lastExec.executed = <<>> /\ lastExec.evaluated = <<>>
        /\ lastExec.cbCalls = <<>>
        /\ lastExec.env = NewConductor
        /\ SubSeq(lastExec.conCalls, 1, 3) = <<"open", "dbmsName", "dbmsVersion">>

\* C6 witness: an object type without a file, asked for in a directory whose
\* scripts are loaded already; the connection was opened
C6_Witness ==
    /\ LookedUpNoFile
    /\ lastExec.con = ConPg /\ lastExec.context = "Tree"
    /\ lastExec.objectType = "nothing"
    /\ ~lastExec.refreshed
    /\ lastExec.outcome = "absent"
    /\ lastExec.conCalls = <<"open", "dbmsName", "dbmsVersion">>

\* the evaluation of a QS script failed after the script had handed tables
\* to the conductor
QsFailedAfterReturnTable ==
    /\ lastExec # Null
    /\ lastExec.kind = "QS" /\ lastExec.outcome = "error"
    /\ lastExec.env.resultsets # <<>>

\* C10 (as claimed): the call fails with the evaluation error, and the
\* tables handed to the conductor before are not destroyed.
C10_PartialResultsPreserved ==
    QsFailedAfterReturnTable =>
        /\ lastExec.err = "error at line"
        /\ \A t \in Range(lastExec.env.resultsets) : tables[t].deletes = 0

\* C10 (amended): the call fails with the evaluation error; the conductor is
\* destroyed while the error leaves execute, so no conductor reaches the
\* caller and every table handed to it before is destroyed, exactly once.
C10_PartialResultsDestroyed ==
    QsFailedAfterReturnTable =>
        /\ lastExec.err = "error at line"
        /\ held = Null
        /\ \A t \in Range(lastExec.env.resultsets) : tables[t].deletes = 1

\* C10 witness: a failure after two calls of returnTable
C10_Witness ==
    /\ QsFailedAfterReturnTable
    /\ lastExec.objectType = "report"
    /\ lastExec.env.resultsets = <<1, 2>>
    /\ tables[1].deletes = 1 /\ tables[2].deletes = 1

\* the directory path holds a .sql or .qs file that cannot be opened
HasUnreadableScript(path) ==
    \E k \in DOMAIN entryInfoList(diskFiles, path) :
        LET f == entryInfoList(diskFiles, path)[k]
        IN  FoldCase(f.suffix) \in {Sql, Qs} /\ ~f.readable

\* C11 (as claimed): no call answers from a bunch that a failed refresh left
\* behind; a lookup in a directory that holds a script file that cannot be
\* opened scans the directory and fails, every time.
C11_NoAnswerFromPartialBunch ==
    (lastExec # Null /\ lastExec.con # Null /\ HasUnreadableScript(lastExec.path))
        => (~lastExec.lookup /\ lastExec.refreshed /\ lastExec.err = "can't open")

\* where C11 holds: the first lookup in such a directory, made while the
\* cache holds nothing for it, fails with the error of refresh
C11_FirstLookupFails ==
    (/\ lastExec # Null /\ lastExec.con # Null
     /\ HasUnreadableScript(lastExec.path)
     /\ lastExec.refreshed)
        => (~lastExec.lookup /\ lastExec.err = "can't open")

\* the file of the directory path that a scan keeps for objectType: the last
\* .sql or .qs file listed with that base name
ScannedFile(path, objectType) ==
    LET fl == entryInfoList(diskFiles, path)
        ks == {k \in DOMAIN fl : fl[k].base = objectType /\ FoldCase(fl[k].suffix) \in {Sql, Qs}}
    IN  fl[Max(ks)]

\* C12 (as claimed): the body a call in a non-Root context gets from
\* getScript is the version specific part of the script file for the
\* comparable version of the connection of that call.
C12_BodyForOwnVersion ==
    (/\ lastExec # Null /\ lastExec.lookup /\ lastExec.script # Null
     /\ lastExec.context # "Root")
        => lastExec.script.body =
              versionSpecificPart(ScannedFile(lastExec.path, lastExec.objectType).content,
                                  lastExec.con.cmp)

\* where C12 holds: a call that scanned the directory itself
C12_BodyForOwnVersionWhenScanned ==
    (/\ lastExec # Null /\ lastExec.lookup /\ lastExec.script # Null
     /\ lastExec.context # "Root" /\ lastExec.refreshed)
        => lastExec.script.body =
              versionSpecificPart(ScannedFile(lastExec.path, lastExec.objectType).content,
                                  lastExec.con.cmp)

\* how often the table t occurs in the sequence list
Occurrences(list, t) == Cardinality({k \in DOMAIN list : list[k] = t})

\* the latest call ran an SQL script to its end and the caller has not
\* touched the conductor it got
SqlJustCompleted == SqlCompleted /\ held # Null /\ held = lastExec.env

\* C14: when an SQL script has run to its end, every result set the
\* connection produced is either destroyed, once, and no table of the
\* conductor (it was a 1x1 script or html result), or not destroyed and
\* exactly once among the tables of the conductor; none is left in the
\* result list of the connection.
C14_DestroyedOrOwned ==
    SqlJustCompleted =>
        /\ DOMAIN tables = DOMAIN lastExec.produced
        /\ lastExec.resultsets = <<>>
        /\ \A t \in DOMAIN tables :
              IF IsHtmlCell(lastExec.produced[t]) \/ IsScriptCell(lastExec.produced[t])
              THEN tables[t].deletes = 1 /\ Occurrences(held.resultsets, t) = 0
              ELSE tables[t].deletes = 0 /\ Occurrences(held.resultsets, t) = 1

\* C14 witness: of two result sets the 1x1 script one is destroyed and the
\* 5x3 one is the table of the conductor
C14_Witness ==
    /\ SqlJustCompleted
    /\ lastExec.produced = <<Html53, Script11>>
    /\ tables[1].deletes = 0 /\ tables[2].deletes = 1
    /\ held.resultsets = <<1>>
    /\ held.scripts = <<"s">>
    /\ lastExec.resultsets = <<>>

\* the latest call ran a script
RanScript == lastExec # Null /\ lastExec.kind \in {"SQL", "QS"}

\* the value envCallback returned for the macro name in the latest call
ValueGiven(name) ==
    LET k == CHOOSE k \in DOMAIN lastExec.cbCalls : lastExec.cbCalls[k] = name
    IN  IF lastExec.cbValues[k] = <<>> THEN NULL ELSE lastExec.cbValues[k]

RECURSIVE Expanded(_, _)
\* the text s from index i on with every macro replaced, in one pass from
\* left to right, by the value envCallback returned for it
Expanded(s, i) ==
    IF i > Len(s) THEN <<>>
    ELSE IF MacroAt(s, i).ok
    THEN ValueGiven(MacroAt(s, i).captured1) \o Expanded(s, MacroAt(s, i).last + 1)
    ELSE <<s[i]>> \o Expanded(s, i + 1)

\* the body that a scan of the directory of the latest call gives for one of
\* the connections: the text of the file, macros included
BodyOnDisk ==
    {versionSpecificPart(ScannedFile(lastExec.path, lastExec.objectType).content,
                         IF lastExec.context = "Root" THEN -1 ELSE c.cmp) :
        c \in MainConnections}

\* C16: a call of execute that ran a script leaves the cached script as it
\* found it, with the macros of the file in its body, and runs the body with
\* each macro replaced by the value of its own callback.
C16_CachedBodyKeepsMacros ==
    RanScript =>
        /\ find(bunchOf(_scripts, lastExec.path), lastExec.objectType) = lastExec.script
        /\ lastExec.script.body \in BodyOnDisk
        /\ lastExec.query = Expanded(lastExec.script.body, 1)

\* C16 witness: tables.sql is run from the cache (an earlier call loaded the
\* directory) with the second callback; the cached body holds its macro
C16_Witness ==
    /\ RanScript
    /\ lastExec.objectType = "tables" /\ lastExec.con = ConPg
    /\ ~lastExec.refreshed
    /\ lastExec.script.body = M100.text \o TablesBody100
    /\ lastExec.cbValues = << <<"2", "2">> >>
    /\ lastExec.query = M100.text \o <<"t", "=", "2", "2">>
    /\ bunchOf(_scripts, lastExec.path)["tables"].body = M100.text \o TablesBody100

\* the places of the events evs in a trace
Positions(trace, evs) == {i \in DOMAIN trace : trace[i].ev \in evs}

\* the latest call got a script from getScript
RanKind == lastExec # Null /\ lastExec.kind \in {"SQL", "QS"}

C18_WitnessSql ==
    /\ RanKind
    /\ lastExec.kind = "SQL"
    /\ Len(lastExec.cbCalls) = 2
    /\ Len(lastExec.produced) = 2

\* the result sets the loop of lines 226-251 handled as ev, in the order in
\* which it handled them
Handled(trace, ev) ==
    SelectSeq(trace, LAMBDA e : e.ev = ev)

\* the cell (0, 0) of each of the result sets of events
CellsOf(events, produced) == [k \in DOMAIN events |-> produced[events[k].arg].cell]

\* the result sets of events, as the connection numbers them (from 1)
TablesOf(events) == [k \in DOMAIN events |-> events[k].arg]

\* the numbers in seq get smaller from each entry to the next
Descending(seq) == \A i, j \in DOMAIN seq : i < j => seq[i] > seq[j]

\* C20: after an SQL script the tables, scripts and HTML fragments of the
\* conductor are those of the result sets of each sort, each sequence in the
\* reverse of the order in which the connection produced them.
C20_ReverseOfProduction ==
    SqlCompleted =>
        /\ Descending(TablesOf(Handled(lastExec.trace, "appendTable")))
        /\ Descending(TablesOf(Handled(lastExec.trace, "appendScript")))
        /\ Descending(TablesOf(Handled(lastExec.trace, "appendHtml")))
        /\ lastExec.env.resultsets = TablesOf(Handled(lastExec.trace, "appendTable"))
        /\ lastExec.env.scripts =
              CellsOf(Handled(lastExec.trace, "appendScript"), lastExec.produced)
        /\ lastExec.env.html =
              CellsOf(Handled(lastExec.trace, "appendHtml"), lastExec.produced)
        /\ Len(lastExec.env.resultsets) + Len(lastExec.env.scripts)
              + Len(lastExec.env.html) = Len(lastExec.produced)

\* C20 witness: the connection produced two tables, and the conductor holds
\* the second before the first
C20_Witness ==
    /\ SqlCompleted
    /\ lastExec.produced = <<Html53, Upper11>>
    /\ lastExec.env.resultsets = <<2, 1>>

(***************************************************************************)
(* Specification SpecConductor: calls of appendTable, appendScript,        *)
(* appendHtml and clear on one conductor, and its destruction              *)
(***************************************************************************)
MaxTables == 2
MaxHanded == 3
MaxTexts == 1

InitConductor ==
    /\ RefreshOff
    /\ ReentryOff
    /\ ThreadsOff
    /\ VersionOff
    /\ MacroOff
    /\ PathOff
    /\ ExecOff
    /\ cEnv = NewConductor
    /\ cHeap = <<>>
    /\ cHanded = <<>>
    /\ cLast = Null

\* the call op was made in the state that is now left
Called(op) ==
    /\ cLast' = [op |-> op, env |-> cEnv, heap |-> cHeap]
    /\ UNCHANGED <<versionVars, macroVars, pathVars, execVars, threadVars, reentryVars, refreshVars>>

\* appendTable(table) with a table that was just created
AppendNewTable ==
    /\ cEnv # Null
    /\ Len(cHeap) < MaxTables
    /\ Len(cHanded) < MaxHanded
    /\ cHeap' = Append(cHeap, NewTable(ExecTable))
    /\ cEnv' = appendTable(cEnv, Len(cHeap) + 1)
    /\ cHanded' = Append(cHanded, Len(cHeap) + 1)
    /\ Called("appendTable")

\* appendTable(table) with a table the user created before: a script can
\* call returnTable with the same result set again
AppendTableAgain(table) ==
    /\ cEnv # Null
    /\ table \in DOMAIN cHeap
    /\ Len(cHanded) < MaxHanded
    /\ cEnv' = appendTable(cEnv, table)
    /\ cHanded' = Append(cHanded, table)
    /\ UNCHANGED cHeap
    /\ Called("appendTable")

AppendScriptCall ==
    /\ cEnv # Null
    /\ Len(cEnv.scripts) < MaxTexts
    /\ cEnv' = appendScript(cEnv, "generated")
    /\ UNCHANGED <<cHeap, cHanded>>
    /\ Called("appendScript")

AppendHtmlCall ==
    /\ cEnv # Null
    /\ Len(cEnv.html) < MaxTexts
    /\ cEnv' = appendHtml(cEnv, "h")
    /\ UNCHANGED <<cHeap, cHanded>>
    /\ Called("appendHtml")

ClearCall ==
    /\ cEnv # Null
    /\ cEnv' = clear(cEnv, cHeap).env
    /\ cHeap' = clear(cEnv, cHeap).heap
    /\ UNCHANGED cHanded
    /\ Called("clear")

\* the conductor is destroyed
DestroyCall ==
    /\ cEnv # Null
    /\ cEnv' = Null
    /\ cHeap' = destroy(cEnv, cHeap)
    /\ UNCHANGED cHanded
    /\ Called("destroy")

NextConductor ==
    \/ AppendNewTable
    \/ \E table \in 1..MaxTables : AppendTableAgain(table)
    \/ AppendScriptCall
    \/ AppendHtmlCall
    \/ ClearCall
    \/ DestroyCall

SpecConductor == InitConductor /\ [][NextConductor]_vars

\* C13 (as claimed): when the conductor is destroyed, every table that was
\* handed to it has been destroyed exactly once.
C13_HandedTablesDestroyedOnce ==
    (cLast # Null /\ cEnv = Null) =>
        \A k \in DOMAIN cHanded : cHeap[cHanded[k]].deletes = 1

\* the parts of C13 that hold: after clear the three sequences are empty; a
\* clear or a destruction of a conductor that holds no table destroys
\* nothing; a destruction does to the tables what clear does
C13_ClearIdempotent ==
    cLast # Null =>
        /\ cLast.op = "clear" => cEnv = NewConductor
        /\ (cLast.op \in {"clear", "destroy"} /\ cLast.env.resultsets = <<>>)
              => cHeap = cLast.heap
        /\ cLast.op = "destroy" => cHeap = clear(cLast.env, cLast.heap).heap

\* no table was handed to the conductor more than once
HandedOnce == \A j, k \in DOMAIN cHanded : cHanded[j] = cHanded[k] => j = k

\* where the last part of C13 holds: tables that are handed over once
C13_DestroyedOnceWhenHandedOnce ==
    (cLast # Null /\ cEnv = Null /\ HandedOnce) =>
        \A k \in DOMAIN cHanded : cHeap[cHanded[k]].deletes = 1

(***************************************************************************)
(* Specification SpecThreads: two threads call getScript and refresh for   *)
(* two connections that resolve to one directory. A step is one statement  *)
(* of the code; nothing in the code orders the steps of the two threads.   *)
(***************************************************************************)
Threads == {1, 2}

\* the connection of each thread; both resolve to scripts/pg/
ThreadConnection(t) == IF t = 1 THEN ConPg ELSE ConPg2

ThreadTypes == {"tables", "nothing"}

IdleThread == [pc |-> "idle", op |-> "none", objectType |-> "none", path |-> <<>>,
               k |-> 0, result |-> "none", script |-> Null]

InitThreads ==
    /\ RefreshOff
    /\ ReentryOff
    /\ VersionOff
    /\ MacroOff
    /\ ConductorOff
    /\ dirs = MainDirs
    /\ _dbms_paths = <<>>
    /\ pLast = Null
    /\ pPrev = Null
    /\ diskFiles = MainFiles
    /\ _scripts = <<>>
    /\ tables = <<>>
    /\ held = Null
    /\ lastExec = Null
    /\ threads = [t \in Threads |-> IdleThread]

\* what no step of a thread changes
ThreadFrame ==
    /\ UNCHANGED <<dirs, pLast, pPrev, diskFiles, tables, held, lastExec>>
    /\ UNCHANGED <<versionVars, macroVars, conductorVars, reentryVars, refreshVars>>

\* thread t calls getScript(connection, Tree, objectType)
CallGetScript(t, objectType) ==
    /\ threads[t].pc = "idle"
    /\ threads' = [threads EXCEPT ![t] =
                      [IdleThread EXCEPT !.pc = "g185", !.op = "getScript",
                                         !.objectType = objectType]]
    /\ UNCHANGED <<_dbms_paths, _scripts>>
    /\ ThreadFrame

\* thread t calls refresh(connection, Tree); the connection is not null
CallRefresh(t) ==
    /\ threads[t].pc = "idle"
    /\ threads' = [threads EXCEPT ![t] =
                      [IdleThread EXCEPT !.pc = "r154", !.op = "refresh"]]
    /\ UNCHANGED <<_dbms_paths, _scripts>>
    /\ ThreadFrame

\* line 185 (getScript) and line 154 (refresh): dbmsScriptPath
ResolveStep(t) ==
    /\ threads[t].pc \in {"g185", "r154"}
    /\ \E r \in {dbmsScriptPath(_dbms_paths, dirs, ThreadConnection(t), "Tree")} :
          /\ _dbms_paths' = r.paths
          /\ threads' = [threads EXCEPT ![t] =
                IF ~r.ok THEN [@ EXCEPT !.pc = "done", !.result = "error"]
                ELSE [@ EXCEPT !.path = r.path,
                               !.pc = IF @ = "g185" THEN "g186" ELSE "r156"]]
    /\ UNCHANGED _scripts
    /\ ThreadFrame

\* line 186: if (bunch.isEmpty()) refresh(connection, context)
IsEmptyStep(t) ==
    /\ threads[t].pc = "g186"
    /\ threads' = [threads EXCEPT ![t].pc =
                      IF isEmpty(bunchOf(_scripts, threads[t].path)) THEN "r154"
                      ELSE "g188"]
    /\ UNCHANGED <<_dbms_paths, _scripts>>
    /\ ThreadFrame

\* lines 155-158: bunch.clear(), and the files are listed
ClearStep(t) ==
    /\ threads[t].pc = "r156"
    /\ _scripts' = setBunch(_scripts, threads[t].path, EmptyBunch)
    /\ threads' = [threads EXCEPT ![t].pc = "r159", ![t].k = 1]
    /\ UNCHANGED _dbms_paths
    /\ ThreadFrame

\* lines 159-180: one turn of the loop over the files, or its end
LoadStep(t) ==
    /\ threads[t].pc = "r159"
    /\ \E fl \in {entryInfoList(diskFiles, threads[t].path)}, k \in {threads[t].k} :
          IF k > Len(fl)
          THEN /\ threads' = [threads EXCEPT ![t] =
                     IF @.op = "getScript" THEN [@ EXCEPT !.pc = "g188"]
                     ELSE [@ EXCEPT !.pc = "done", !.result = "returned"]]
               /\ UNCHANGED _scripts
          ELSE IF ~IsScriptSuffix(suffixLower(fl[k]))
          THEN /\ threads' = [threads EXCEPT ![t].k = k + 1]
               /\ UNCHANGED _scripts
          ELSE IF ~fl[k].readable
          THEN /\ threads' = [threads EXCEPT ![t].pc = "done", ![t].result = "error"]
               /\ UNCHANGED _scripts
          ELSE /\ _scripts' = setBunch(_scripts, threads[t].path,
                                 insert(bunchOf(_scripts, threads[t].path), fl[k].base,
                                        Script(fl[k], ThreadConnection(t).cmp)))
               /\ threads' = [threads EXCEPT ![t].k = k + 1]
    /\ UNCHANGED _dbms_paths
    /\ ThreadFrame

\* lines 188-189: bunch.find(objectType)
FindStep(t) ==
    /\ threads[t].pc = "g188"
    /\ \E found \in {find(bunchOf(_scripts, threads[t].path), threads[t].objectType)} :
          threads' = [threads EXCEPT ![t].pc = "done",
                                     ![t].result = IF found = Null THEN "absent" ELSE "found",
                                     ![t].script = found]
    /\ UNCHANGED <<_dbms_paths, _scripts>>
    /\ ThreadFrame

\* the call of thread t has returned; the thread is free for its next call
ReturnStep(t) ==
    /\ threads[t].pc = "done"
    /\ threads' = [threads EXCEPT ![t] = IdleThread]
    /\ UNCHANGED <<_dbms_paths, _scripts>>
    /\ ThreadFrame

NextThreads ==
    \E t \in Threads :
        \/ \E objectType \in ThreadTypes : CallGetScript(t, objectType)
        \/ CallRefresh(t)
        \/ ResolveStep(t)
        \/ IsEmptyStep(t)
        \/ ClearStep(t)
        \/ LoadStep(t)
        \/ FindStep(t)
        \/ ReturnStep(t)

SpecThreads == InitThreads /\ [][NextThreads]_vars

\* C15 (as claimed): no thread sees the bunch while another thread has
\* cleared it and not yet filled it again: a call of getScript for an object
\* type that has a script file in the directory never returns absent.
C15_NeverAbsentForExistingFile ==
    \A t \in Threads :
        (/\ threads[t].pc = "done" /\ threads[t].op = "getScript"
         /\ ~NoScriptFile(threads[t].path, threads[t].objectType))
            => threads[t].result # "absent"

(***************************************************************************)
(* Specification SpecReentry: one caller and a connection that gets its    *)
(* comparable version by executing the Root script "version" (the case the *)
(* comment in line 175 is about). stack holds the calls in progress; a     *)
(* step is one statement of the innermost call.                            *)
(***************************************************************************)
MaxDepth == 6

\* the connection: it resolves to scripts/pg/
ReentrantConnection == ConPg

ReentryContexts == {"Root", "Tree"}
ReentryTypes == {"version", "gated", "tables"}

Frame(fn, pc, context, objectType) ==
    [fn |-> fn, pc |-> pc, context |-> context, objectType |-> objectType,
     path |-> <<>>, k |-> 0]

InitReentry ==
    /\ RefreshOff
    /\ VersionOff
    /\ MacroOff
    /\ ConductorOff
    /\ ThreadsOff
    /\ dirs = MainDirs
    /\ _dbms_paths = <<>>
    /\ pLast = Null
    /\ pPrev = Null
    /\ diskFiles = MainFiles
    /\ _scripts = <<>>
    /\ tables = <<>>
    /\ held = Null
    /\ lastExec = Null
    /\ stack = <<>>

\* Script(f, version) for every file of the connection's directories and the
\* two versions a script is loaded with, computed once
ScriptTable ==
    { <<f, version, Script(f, version)>> :
        f \in UNION {Range(MainFiles[path]) : path \in DOMAIN MainFiles},
        version \in {-1, ReentrantConnection.cmp} }

ScriptOf(f, version) ==
    (CHOOSE e \in ScriptTable : e[1] = f /\ e[2] = version)[3]

\* what no step changes
ReentryFrame ==
    /\ UNCHANGED <<dirs, pLast, pPrev, diskFiles, tables, held, lastExec>>
    /\ UNCHANGED <<versionVars, macroVars, conductorVars, threadVars, refreshVars>>

\* the innermost call
Top == stack[Len(stack)]

\* the innermost call goes on at pc / with the frame f
TopAt(pc) == [stack EXCEPT ![Len(stack)].pc = pc]
TopSet(f) == [stack EXCEPT ![Len(stack)] = f]

\* the innermost call returns
Pop == SubSeq(stack, 1, Len(stack) - 1)

\* the caller calls getScript(connection, context, objectType)
ReCall(context, objectType) ==
    /\ stack = <<>>
    /\ stack' = <<Frame("getScript", "g185", context, objectType)>>
    /\ UNCHANGED <<_dbms_paths, _scripts>>
    /\ ReentryFrame

\* line 185 (getScript) and line 154 (refresh): dbmsScriptPath; when it
\* throws, every call in progress is left
ReResolve ==
    /\ stack # <<>>
    /\ Top.pc \in {"g185", "r154"}
    /\ \E r \in {dbmsScriptPath(_dbms_paths, dirs, ReentrantConnection, Top.context)} :
          /\ _dbms_paths' = r.paths
          /\ stack' = IF ~r.ok THEN <<>>
                      ELSE TopSet([Top EXCEPT !.path = r.path,
                                              !.pc = IF @ = "g185" THEN "g186" ELSE "r156"])
    /\ UNCHANGED _scripts
    /\ ReentryFrame

\* line 186 with a bunch that is not empty
ReNotEmpty ==
    /\ stack # <<>>
    /\ Top.pc = "g186"
    /\ ~isEmpty(bunchOf(_scripts, Top.path))
    /\ stack' = TopAt("g188")
    /\ UNCHANGED <<_dbms_paths, _scripts>>
    /\ ReentryFrame

\* lines 186-187 with an empty bunch: refresh(connection, context) is called
ReRefresh ==
    /\ stack # <<>>
    /\ Top.pc = "g186"
    /\ isEmpty(bunchOf(_scripts, Top.path))
    /\ Len(stack) < MaxDepth
    /\ stack' = Append(TopAt("g188"), Frame("refresh", "r154", Top.context, "none"))
    /\ UNCHANGED <<_dbms_paths, _scripts>>
    /\ ReentryFrame

\* lines 155-158
ReClear ==
    /\ stack # <<>>
    /\ Top.pc = "r156"
    /\ _scripts' = setBunch(_scripts, Top.path, EmptyBunch)
    /\ stack' = TopSet([Top EXCEPT !.pc = "r159", !.k = 1])
    /\ UNCHANGED _dbms_paths
    /\ ReentryFrame

\* the file the loop of refresh is at
TopFile == entryInfoList(diskFiles, Top.path)[Top.k]

\* line 159 when the loop is through: refresh returns
ReLoaded ==
    /\ stack # <<>>
    /\ Top.pc = "r159"
    /\ Top.k > Len(entryInfoList(diskFiles, Top.path))
    /\ stack' = Pop
    /\ UNCHANGED <<_dbms_paths, _scripts>>
    /\ ReentryFrame

\* lines 161-167: a file that is no script is passed over, a script that
\* cannot be opened ends every call in progress with the error
ReSkip ==
    /\ stack # <<>>
    /\ Top.pc = "r159"
    /\ Top.k <= Len(entryInfoList(diskFiles, Top.path))
    /\ ~IsScriptSuffix(suffixLower(TopFile)) \/ ~TopFile.readable
    /\ stack' = IF ~IsScriptSuffix(suffixLower(TopFile))
                THEN TopSet([Top EXCEPT !.k = @ + 1])
                ELSE <<>>
    /\ UNCHANGED <<_dbms_paths, _scripts>>
    /\ ReentryFrame

\* line 176 in a context in which the connection is asked for its
\* comparable version: dbmsComparableVersion() is called
ReAskVersion ==
    /\ stack # <<>>
    /\ Top.pc = "r159"
    /\ Top.k <= Len(entryInfoList(diskFiles, Top.path))
    /\ IsScriptSuffix(suffixLower(TopFile)) /\ TopFile.readable
    /\ scriptVersion(ReentrantConnection, Top.context).asks
    /\ Len(stack) < MaxDepth
    /\ stack' = Append(TopAt("r176"), Frame("dbmsComparableVersion", "v1", "none", "none"))
    /\ UNCHANGED <<_dbms_paths, _scripts>>
    /\ ReentryFrame

\* lines 171-179: the script is put into the bunch, with the version that
\* was returned or with -1
ReInsert ==
    /\ stack # <<>>
    /\ \/ Top.pc = "r176"
       \/ /\ Top.pc = "r159"
          /\ Top.k <= Len(entryInfoList(diskFiles, Top.path))
          /\ IsScriptSuffix(suffixLower(TopFile)) /\ TopFile.readable
          /\ ~scriptVersion(ReentrantConnection, Top.context).asks
    /\ _scripts' = setBunch(_scripts, Top.path,
                       insert(bunchOf(_scripts, Top.path), TopFile.base,
                              ScriptOf(TopFile,
                                       scriptVersion(ReentrantConnection, Top.context).version)))
    /\ stack' = TopSet([Top EXCEPT !.pc = "r159", !.k = @ + 1])
    /\ UNCHANGED _dbms_paths
    /\ ReentryFrame

\* dbmsComparableVersion() of the connection: it executes the Root script
\* "version", and execute begins with getScript (line 199)
ReVersionScript ==
    /\ stack # <<>>
    /\ Top.pc = "v1"
    /\ Len(stack) < MaxDepth
    /\ stack' = Append(TopAt("v2"), Frame("getScript", "g185", "Root", "version"))
    /\ UNCHANGED <<_dbms_paths, _scripts>>
    /\ ReentryFrame

\* lines 188-189 of getScript, and the end of dbmsComparableVersion(): the
\* call returns
ReReturn ==
    /\ stack # <<>>
    /\ Top.pc \in {"g188", "v2"}
    /\ stack' = Pop
    /\ UNCHANGED <<_dbms_paths, _scripts>>
    /\ ReentryFrame

\* the steps of the calls in progress
ReStep ==
    \/ ReResolve
    \/ ReNotEmpty
    \/ ReRefresh
    \/ ReClear
    \/ ReLoaded
    \/ ReSkip
    \/ ReAskVersion
    \/ ReInsert
    \/ ReVersionScript
    \/ ReReturn

NextReentry ==
    \/ \E context \in ReentryContexts, objectType \in ReentryTypes :
          ReCall(context, objectType)
    \/ ReStep

\* a call in progress goes on: the thread of the caller runs
SpecReentry == InitReentry /\ [][NextReentry]_vars /\ WF_vars(ReStep)

\* a call of getScript in the Root context is in progress
RootCallInProgress == stack # <<>> /\ stack[1].context = "Root"

\* C17: a call of getScript in the Root context returns, also for a
\* connection that runs a Root script to get its comparable version.
C17_RootLookupReturns == RootCallInProgress ~> (stack = <<>>)

\* C17, the reason: a refresh in the Root context never calls
\* dbmsComparableVersion()
C17_RootNeverAsksVersion ==
    \A i \in DOMAIN stack :
        stack[i].fn = "dbmsComparableVersion" => stack[i - 1].context # "Root"

\* C17 witness: the connection is running the Root script to get its
\* comparable version for a refresh of the Tree directory, and the refresh
\* in the Root context this needs is at its second file
C17_Witness ==
    /\ Len(stack) = 5
    /\ stack[2].fn = "refresh" /\ stack[2].context = "Tree"
    /\ stack[3].fn = "dbmsComparableVersion"
    /\ stack[4].fn = "getScript" /\ stack[4].context = "Root"
    /\ stack[5].fn = "refresh" /\ stack[5].context = "Root" /\ stack[5].k = 2

\* C17 witness: a refresh in the Root context, started by getScript, has
\* loaded its first script with version -1, and no call of the connection
\* is in progress
C17_RootWitness ==
    /\ RootCallInProgress
    /\ Len(stack) = 2
    /\ stack[2].fn = "refresh" /\ stack[2].k = 2
    /\ DOMAIN bunchOf(_scripts, stack[2].path) = {"gated"}

(***************************************************************************)
(* Specification SpecRefresh: refresh and getScript on a directory whose   *)
(* files come and go between the calls                                     *)
(***************************************************************************)
RefreshConnection == ConPg
RefreshContext == "Tree"

\* the directory RefreshConnection resolves to in RefreshContext
RefreshedDir == ScriptsPg \o <<"tree">>

\* the files the directory can hold, in the order QDir lists them
FilePool ==
    << HiddenFile(Sql, <<"h">>),
       File("a", Sql, <<"a">>, TRUE),
       File("b", Sql, <<"b">>, FALSE),
       File("dup", Qs, <<"q">>, TRUE),
       File("dup", Sql, <<"s">>, TRUE),
       File("notes", <<"t", "x", "t">>, <<"n">>, TRUE),
       File("views", <<"S", "Q", "L">>, <<"v">>, TRUE) >>

RefreshTypes == {"a", "dup", "views", "notes", "nothing"}

\* the files of FilePool at the places present, as the directory holds them
FilesAt(present) ==
    [path \in MainDirs |->
        IF path = RefreshedDir
        THEN [k \in 1..Cardinality(present) |->
                 FilePool[CHOOSE i \in present :
                             Cardinality({j \in present : j < i}) = k - 1]]
        ELSE <<>>]

\* the places in FilePool of the files the directory holds
Present == {i \in DOMAIN FilePool : FilePool[i] \in Range(diskFiles[RefreshedDir])}

InitRefresh ==
    /\ VersionOff
    /\ MacroOff
    /\ ConductorOff
    /\ ThreadsOff
    /\ ReentryOff
    /\ dirs = MainDirs
    /\ _dbms_paths = <<>>
    /\ pLast = Null
    /\ pPrev = Null
    /\ diskFiles = FilesAt(DOMAIN FilePool)
    /\ _scripts = <<>>
    /\ tables = <<>>
    /\ held = Null
    /\ lastExec = Null
    /\ rLast = Null

\* what no step of this specification changes
RefreshFrame ==
    /\ UNCHANGED <<dirs, pLast, pPrev, tables, held, lastExec>>
    /\ UNCHANGED <<versionVars, macroVars, conductorVars, threadVars, reentryVars>>

\* a file is deleted from the directory
RemoveFile(i) ==
    /\ i \in Present
    /\ diskFiles' = FilesAt(Present \ {i})
    /\ rLast' = Null
    /\ UNCHANGED <<_dbms_paths, _scripts>>
    /\ RefreshFrame

\* a file is put into the directory
AddFile(i) ==
    /\ i \notin Present
    /\ diskFiles' = FilesAt(Present \cup {i})
    /\ rLast' = Null
    /\ UNCHANGED <<_dbms_paths, _scripts>>
    /\ RefreshFrame

\* a call refresh(connection, context)
RefreshDirectory ==
    /\ \E r \in {refresh(_dbms_paths, _scripts, dirs, diskFiles,
                         RefreshConnection, RefreshContext)} :
          /\ _dbms_paths' = r.paths
          /\ _scripts' = r.scripts
          /\ rLast' = [op |-> "refresh", ok |-> r.ok, refreshed |-> TRUE,
                       before |-> bunchOf(_scripts, RefreshedDir), script |-> Null]
    /\ UNCHANGED diskFiles
    /\ RefreshFrame

\* a call getScript(connection, context, objectType)
LookupScript(objectType) ==
    /\ \E s \in {getScript(_dbms_paths, _scripts, dirs, diskFiles,
                           RefreshConnection, RefreshContext, objectType)} :
          /\ _dbms_paths' = s.paths
          /\ _scripts' = s.scripts
          /\ rLast' = [op |-> "getScript", ok |-> s.ok, refreshed |-> s.refreshed,
                       before |-> bunchOf(_scripts, RefreshedDir), script |-> s.script]
    /\ UNCHANGED diskFiles
    /\ RefreshFrame

NextRefresh ==
    \/ \E i \in DOMAIN FilePool : RemoveFile(i)
    \/ \E i \in DOMAIN FilePool : AddFile(i)
    \/ RefreshDirectory
    \/ \E objectType \in RefreshTypes : LookupScript(objectType)

SpecRefresh == InitRefresh /\ [][NextRefresh]_vars

\* the latest call scanned the directory and did not throw
Refreshed == rLast # Null /\ rLast.refreshed /\ rLast.ok

\* the places in the directory of its .sql and .qs files
ScriptFiles ==
    {k \in DOMAIN diskFiles[RefreshedDir] :
        FoldCase(diskFiles[RefreshedDir][k].suffix) \in {Sql, Qs}}

\* those of them that are not hidden
ListedScriptFiles == {k \in ScriptFiles : ~diskFiles[RefreshedDir][k].hidden}

\* the bunch holds one entry for each base name of the files at the places
\* ks and no other, the entry of a base name being made from the last of
\* its files
BunchIsOf(ks) ==
    /\ DOMAIN bunchOf(_scripts, RefreshedDir) = {diskFiles[RefreshedDir][k].base : k \in ks}
    /\ \A k \in ks :
          (\A j \in ks : diskFiles[RefreshedDir][j].base = diskFiles[RefreshedDir][k].base
                            => j <= k)
              => bunchOf(_scripts, RefreshedDir)[diskFiles[RefreshedDir][k].base]
                    = Script(diskFiles[RefreshedDir][k], RefreshConnection.cmp)

\* getScript calls refresh exactly when it finds the bunch empty
RefreshIffEmpty ==
    (rLast # Null /\ rLast.op = "getScript") => (rLast.refreshed <=> isEmpty(rLast.before))

\* C19 as stated: after a refresh that did not throw the bunch holds one
\* entry for each base name of the .sql and .qs files of the directory and
\* nothing else, the entry of a base name being the one scanned last, and
\* getScript calls refresh exactly when the bunch is empty.
C19_EntryForEveryScriptFile ==
    /\ Refreshed => BunchIsOf(ScriptFiles)
    /\ RefreshIffEmpty

\* C19 amended: the same for the .sql and .qs files of the directory that
\* are not hidden; a hidden file gets no entry.
C19_EntryForEveryListedScriptFile ==
    /\ Refreshed => BunchIsOf(ListedScriptFiles)
    /\ RefreshIffEmpty

\* C19 witness: a refresh has replaced a bunch that held "a" and "dup" by one
\* that holds "dup" and "views", the directory holding a hidden .sql file,
\* dup.qs, dup.sql, notes.txt and views.SQL
C19_Witness ==
    /\ Refreshed
    /\ rLast.op = "refresh"
    /\ DOMAIN rLast.before = {"a", "dup"}
    /\ Present = {1, 4, 5, 6, 7}
    /\ DOMAIN bunchOf(_scripts, RefreshedDir) = {"dup", "views"}
    /\ bunchOf(_scripts, RefreshedDir)["dup"].type = "SQL"

====
